---- MODULE Spec2Model ----
(***************************************************************************)
(* Most Exciting Image optimisation (csng_invariances/training/mei.py):    *)
(* the lowpass mask, the frequency-domain gradient filter, one step of     *)
(* naive gradient ascent and the outer mei loop; and the linear receptive  *)
(* field filters of csng_invariances/utility/lin_filter.py with their      *)
(* hyperparameter searches.                                                *)
(*                                                                         *)
(* Tensors hold floating point numbers.  They are modelled by exact        *)
(* rationals extended with the IEEE-754 special values +inf, -inf and NaN, *)
(* with the IEEE rules for x/0, inf-inf, inf*0 and NaN propagation.        *)
(***************************************************************************)
EXTENDS Integers, Sequences, FiniteSets, TLC

(***************************************************************************)
(* Extended rational arithmetic (the float operations of torch).           *)
(***************************************************************************)
RECURSIVE GCD(_, _)
GCD(a, b) == IF b = 0 THEN a ELSE GCD(b, a % b)

AbsInt(i) == IF i < 0 THEN -i ELSE i

SignInt(i) == IF i < 0 THEN -1 ELSE IF i = 0 THEN 0 ELSE 1

NaN == [k |-> "nan", n |-> 0, d |-> 1]

Inf(s) == [k |-> "inf", n |-> s, d |-> 1]

\* the rational num/den in lowest terms, den > 0
R(num, den) ==
    LET s == IF den < 0 THEN -1 ELSE 1
        g == GCD(AbsInt(num), AbsInt(den))
    IN  [k |-> "fin", n |-> (s * num) \div g, d |-> (s * den) \div g]

Zero == R(0, 1)

One == R(1, 1)

IsNaN(x) == x.k = "nan"

IsFin(x) == x.k = "fin"

SignF(x) == SignInt(x.n)

NegF(x) == [x EXCEPT !.n = -x.n]

AbsF(x) == [x EXCEPT !.n = AbsInt(x.n)]

AddF(x, y) ==
    IF IsNaN(x) \/ IsNaN(y) THEN NaN
    ELSE IF x.k = "inf" /\ y.k = "inf" THEN (IF x.n = y.n THEN x ELSE NaN)
    ELSE IF x.k = "inf" THEN x
    ELSE IF y.k = "inf" THEN y
    ELSE LET g == GCD(x.d, y.d)
             l == (x.d \div g) * y.d
         IN  R(x.n * (l \div x.d) + y.n * (l \div y.d), l)

MulF(x, y) ==
    IF IsNaN(x) \/ IsNaN(y) THEN NaN
    ELSE IF x.k = "inf" \/ y.k = "inf"
         THEN (IF SignF(x) * SignF(y) = 0 THEN NaN ELSE Inf(SignF(x) * SignF(y)))
    ELSE LET g1 == GCD(AbsInt(x.n), y.d)
             g2 == GCD(AbsInt(y.n), x.d)
         IN  R((x.n \div g1) * (y.n \div g2), (x.d \div g2) * (y.d \div g1))

\* IEEE division: x/0 is +-inf for x # 0 and NaN for 0/0; x/inf is 0
DivF(x, y) ==
    IF IsNaN(x) \/ IsNaN(y) THEN NaN
    ELSE IF x.k = "inf" /\ y.k = "inf" THEN NaN
    ELSE IF x.k = "inf" THEN Inf(IF SignF(y) < 0 THEN -x.n ELSE x.n)
    ELSE IF y.k = "inf" THEN Zero
    ELSE IF y.n = 0 THEN (IF x.n = 0 THEN NaN ELSE Inf(SignF(x)))
    ELSE MulF(x, R(y.d, y.n))

\* x <= y on non-NaN values
LeqF(x, y) ==
    IF x.k = "inf" THEN (x.n < 0 \/ (y.k = "inf" /\ y.n > 0))
    ELSE IF y.k = "inf" THEN y.n > 0
    ELSE LET g == GCD(x.d, y.d)
         IN  x.n * (y.d \div g) <= y.n * (x.d \div g)

LtF(x, y) == LeqF(x, y) /\ x # y

\* torch.maximum of two scalars: NaN propagates
Max2F(x, y) ==
    IF IsNaN(x) \/ IsNaN(y) THEN NaN ELSE IF LeqF(x, y) THEN y ELSE x

\* torch.minimum of two integers (the entries of two aranges)
Min2(i, j) == IF i <= j THEN i ELSE j

\* the function f as an explicit table of its values, each computed once
Eval(f) == f @@ <<>>

\* body with val as its argument: the value is computed once
Let(val, body(_)) == body(val)

(***************************************************************************)
(* Matrices: a tensor of shape (1, 1, H, W) is the sequence of its H rows. *)
(***************************************************************************)
Height(m) == Len(m)

Width(m) == Len(m[1])

Cells(m) == {<<y, x>> : y \in 1..Height(m), x \in 1..Width(m)}

RECURSIVE SumSeq(_)
SumSeq(s) == IF s = <<>> THEN Zero ELSE AddF(Head(s), SumSeq(Tail(s)))

RECURSIVE MaxSeq(_)
MaxSeq(s) == IF Len(s) = 1 THEN s[1] ELSE Max2F(s[1], MaxSeq(Tail(s)))

\* Tensor.max(): the largest entry, NaN when any entry is NaN
MaxT(m) == MaxSeq(Eval([y \in 1..Height(m) |-> MaxSeq(m[y])]))

\* Tensor.mean()
MeanT(m) ==
    DivF(SumSeq(Eval([y \in 1..Height(m) |-> SumSeq(m[y])])),
         R(Height(m) * Width(m), 1))

\* torch.abs
AbsT(m) == Eval([y \in 1..Height(m) |-> Eval([x \in 1..Width(m) |-> AbsF(m[y][x])])])

ScaleT(c, m) == Eval([y \in 1..Height(m) |-> Eval([x \in 1..Width(m) |-> MulF(c, m[y][x])])])

AddT(m1, m2) ==
    Eval([y \in 1..Height(m1) |-> Eval([x \in 1..Width(m1) |-> AddF(m1[y][x], m2[y][x])])])

ConstT(h, w, v) == Eval([y \in 1..h |-> Eval([x \in 1..w |-> v])])

IsZeroT(m) == \A c \in Cells(m) : m[c[1]][c[2]] = Zero

IsFiniteT(m) == \A c \in Cells(m) : IsFin(m[c[1]][c[2]])

(***************************************************************************)
(* get_lowpass_tensor (mei.py 13-42).                                      *)
(***************************************************************************)
\* the smoothing exponents the model draws; 1/10 is the default of the code
DefaultAlpha == R(1, 10)

AlphaSet == {R(-1, 1), R(0, 1), DefaultAlpha, R(1, 1), R(2, 1)}

RECURSIVE IntPow(_, _)
IntPow(b, e) == IF e = 0 THEN One ELSE MulF(b, IntPow(b, e - 1))

\* b ** 0.1 for the integers b that occur as squared distances, rounded to a
\* rational (0.1 is not an integer exponent, the power is irrational for b >= 2)
PowTenth(b) ==
    CASE b.n = 0 -> Zero
      [] b.n = 1 -> One
      [] b.n = 2 -> R(15, 14)
      [] b.n = 3 -> R(48, 43)
      [] b.n = 4 -> R(225, 196)
      [] b.n = 5 -> R(47, 40)
      [] b.n = 6 -> R(360, 301)
      [] b.n = 7 -> R(17, 14)
      [] b.n = 8 -> R(3375, 2744)
      [] b.n = 9 -> R(2304, 1849)
      [] b.n = 10 -> R(141, 112)

\* torch's b ** alpha for a non-negative b: 0 ** 0 is 1, 0 ** negative is +inf
Pow(b, alpha) ==
    IF alpha.d = 1
    THEN (IF alpha.n >= 0 THEN IntPow(b, alpha.n)
          ELSE DivF(One, IntPow(b, -alpha.n)))
    ELSE PowTenth(b)

\* torch.arange(0, n, 1) and torch.arange(n - 1, -1, -1)
ArangeUp(n) == Eval([i \in 1..n |-> i - 1])

ArangeDown(n) == Eval([i \in 1..n |-> n - i])

\* a ramp that only counts up: the reversed arange left out
RampWithoutMinimum(n) == Eval([i \in 1..n |-> R(ArangeUp(n)[i], 1)])

\* torch.minimum of the two aranges, as floats
MinRamp(n) == Eval([i \in 1..n |-> R(Min2(ArangeUp(n)[i], ArangeDown(n)[i]), 1)])

\* the two axes exchanged
SwappedSquaredDistance(th, tw) ==
    Eval([y \in 1..Len(tw) |-> Eval([x \in 1..Len(th) |->
        AddF(IntPow(th[x], 2), IntPow(tw[y], 2))])])

\* tw[None, :] ** 2 + th[:, None] ** 2: row index from th, column index from tw
SquaredDistance(th, tw) ==
    Eval([y \in 1..Len(th) |-> Eval([x \in 1..Len(tw) |->
        AddF(IntPow(tw[x], 2), IntPow(th[y], 2))])])

\* the reciprocal without the clamp torch.maximum(one, .)
AttenuationUnclamped(dist, exponent) == DivF(One, Pow(dist, exponent))

\* 1 / torch.maximum(one, dist ** gradient_smoothing_factor)
Attenuation(dist, exponent) == DivF(One, Max2F(One, Pow(dist, exponent)))

get_lowpass_tensor(h, w, exponent) ==
    LET tw == MinRamp(w)
        th == MinRamp(h)
        dist == SquaredDistance(th, tw)
    IN  Eval([y \in 1..Height(dist) |-> Eval([x \in 1..Width(dist) |->
            Attenuation(dist[y][x], exponent)])])

(***************************************************************************)
(* lowpass_filtering_in_frequency_domain (mei.py 45-61).  The transforms   *)
(* are exact for the lengths 1, 2 and 4, whose roots of unity are 1, -1,   *)
(* i and -i.                                                               *)
(***************************************************************************)
Cx(re, im) == [re |-> re, im |-> im]

CAdd(a, b) == Cx(AddF(a.re, b.re), AddF(a.im, b.im))

CScale(c, a) == Cx(MulF(c, a.re), MulF(c, a.im))

\* a * (-i)^q
MulQ(a, q) ==
    CASE q = 0 -> a
      [] q = 1 -> Cx(a.im, NegF(a.re))
      [] q = 2 -> Cx(NegF(a.re), NegF(a.im))
      [] q = 3 -> Cx(NegF(a.im), a.re)

RECURSIVE CSumSeq(_)
CSumSeq(s) == IF s = <<>> THEN Cx(Zero, Zero) ELSE CAdd(Head(s), CSumSeq(Tail(s)))

\* exp(-2 pi i m / n) as a number of clockwise quarter turns
Quarter(n, m) == (4 \div n) * (m % n)

\* the unnormalised discrete Fourier transform of s; dir = 1 forward, 3 inverse
DFT(s, dir) ==
    LET n == Len(s)
    IN  Eval([k \in 1..n |->
            CSumSeq(Eval([j \in 1..n |->
                MulQ(s[j], (dir * Quarter(n, (k - 1) * (j - 1))) % 4)]))])

Transpose(m) == Eval([x \in 1..Width(m) |-> Eval([y \in 1..Height(m) |-> m[y][x]])])

DFT2(m, dir) ==
    LET rows == Eval([y \in 1..Height(m) |-> DFT(m[y], dir)])
    IN  Transpose(Eval([x \in 1..Width(m) |-> DFT(Transpose(rows)[x], dir)]))

\* the transform of the entries' magnitudes
fft2Magnitude(m) ==
    DFT2(Eval([y \in 1..Height(m) |-> Eval([x \in 1..Width(m) |->
        Cx(AbsF(m[y][x]), Zero)])]), 1)

\* torch.fft.fft2 of a real tensor
fft2(m) ==
    DFT2(Eval([y \in 1..Height(m) |-> Eval([x \in 1..Width(m) |-> Cx(m[y][x], Zero)])]), 1)

\* the inverse transform without the division by the number of entries
ifft2Unscaled(m) == DFT2(m, 3)

\* torch.fft.ifft2: the inverse transform divided by the number of entries
ifft2(m) ==
    LET raw == DFT2(m, 3)
        c == DivF(One, R(Height(m) * Width(m), 1))
    IN  Eval([y \in 1..Height(m) |-> Eval([x \in 1..Width(m) |-> CScale(c, raw[y][x])])])

\* the result is the complex tensor that ifft2 returns
lowpass_filtering_in_frequency_domain(image_grad, lowpass) ==
    LET mean == MeanT(lowpass)
        f == Eval([y \in 1..Height(lowpass) |-> Eval([x \in 1..Width(lowpass) |->
                 DivF(lowpass[y][x], mean)])])
        pp == fft2(image_grad)
    IN  ifft2(Eval([y \in 1..Height(pp) |-> Eval([x \in 1..Width(pp) |->
                  CScale(f[y][x], pp[y][x])])]))

(***************************************************************************)
(* torchvision.transforms.functional.gaussian_blur(image, 3, sigma).       *)
(***************************************************************************)
\* the kernel size the step passes
KernelSize == 3

\* exp(-t) for t >= 0, rounded to the rational 1 / (1 + t + t^2 / 2)
ExpNeg(t) == DivF(One, AddF(One, AddF(t, MulF(R(1, 2), MulF(t, t)))))

\* the 1-d kernel: pdf(x) = exp(-0.5 * (x / sigma)^2) at x = -1, 0, 1, normalised
GaussianKernel1d(sigma) ==
    LET half == (KernelSize - 1) \div 2
        pdf == Eval([i \in 1..KernelSize |->
                   ExpNeg(MulF(R(1, 2), IntPow(DivF(R(i - 1 - half, 1), sigma), 2)))])
    IN  Eval([i \in 1..KernelSize |-> DivF(pdf[i], SumSeq(pdf))])

\* index i of a line of n entries padded by reflection (without the border)
Reflect(i, n) == IF i < 1 THEN 2 - i ELSE IF i > n THEN 2 * n - i ELSE i

gaussian_blur(m, sigma) ==
    LET k == GaussianKernel1d(sigma)
        half == (KernelSize - 1) \div 2
        h == Height(m)
        w == Width(m)
    IN  Eval([y \in 1..h |-> Eval([x \in 1..w |->
            SumSeq(Eval([t \in 1..(KernelSize * KernelSize) |->
                LET dy == ((t - 1) \div KernelSize) - half
                    dx == ((t - 1) % KernelSize) - half
                IN  MulF(MulF(k[dy + half + 1], k[dx + half + 1]),
                         m[Reflect(y + dy, h)][Reflect(x + dx, w)])]))])])

(***************************************************************************)
(* torch.linspace(start, end, steps).tolist()                              *)
(***************************************************************************)
linspace(start, end, steps) ==
    IF steps = 1 THEN <<start>>
    ELSE LET step == DivF(AddF(end, NegF(start)), R(steps - 1, 1))
         IN  Eval([i \in 1..steps |->
                 IF i - 1 < steps \div 2
                 THEN AddF(start, MulF(R(i - 1, 1), step))
                 ELSE AddF(end, NegF(MulF(R(steps - i, 1), step)))])

(***************************************************************************)
(* Bounds and inputs.                                                      *)
(***************************************************************************)
\* largest number of epochs of a run
MaxEpochs == 2

\* largest number of entries of selected_neuron_indicies
MaxSelected == 2

\* largest height and width of a lowpass mask built on its own
MaxDim == 5

\* the image shapes (height, width) of the runs: the blur's reflection padding
\* needs at least 2 pixels a side, the transforms lengths 1, 2 or 4
Shapes == {<<2, 2>>, <<4, 4>>}

\* seed images: value v at pixel (2, 2), value b everywhere else
SeedImage(h, w, b, v) ==
    Eval([y \in 1..h |-> Eval([x \in 1..w |-> IF y = 2 /\ x = 2 THEN R(v, 1) ELSE R(b, 1)])])

\* all zero, all negative, all positive, mixed signs, largest value twice
SeedValues == {<<0, 0>>, <<-1, -2>>, <<1, 2>>, <<-1, 2>>, <<1, 0>>}

Seeds == {SeedImage(s[1], s[2], p[1], p[2]) : s \in Shapes, p \in SeedValues}

\* (lr_start, lr_end) and (sigma_start, sigma_end); all positive
LrPairs == {<<R(1, 1), R(1, 2)>>, <<R(2, 1), R(2, 1)>>}

SigmaPairs == {<<R(1, 1), R(1, 2)>>}

\* the neurons of the scoring model
Neurons == 0..2

RECURSIVE SeqsUpTo(_, _)
SeqsUpTo(S, n) ==
    IF n = 0 THEN {<<>>}
    ELSE LET shorter == SeqsUpTo(S, n - 1)
         IN  shorter \cup {Append(q, e) : q \in {r \in shorter : Len(r) = n - 1}, e \in S}

(***************************************************************************)
(* The scoring model handed to mei (an external collaborator): neuron 0    *)
(* has an activation that does not depend on the image, neuron 1 a linear  *)
(* one, neuron 2 the quadratic activation sum(image^2)/2.  ModelGradient   *)
(* is the gradient of the neuron's activation with respect to the image.   *)
(***************************************************************************)
LinearWeights(h, w) ==
    Eval([y \in 1..h |-> Eval([x \in 1..w |->
        IF y = 1 /\ x = 1 THEN R(1, 1) ELSE IF y = 2 /\ x = 1 THEN R(-1, 1) ELSE Zero])])

ModelGradient(neuron, data) ==
    CASE neuron = 0 -> ConstT(Height(data), Width(data), Zero)
      [] neuron = 1 -> LinearWeights(Height(data), Width(data))
      [] neuron = 2 -> data

(***************************************************************************)
(* State.                                                                  *)
(***************************************************************************)
VARIABLES
    pc,          \* position in mei / naive_gradient_ascent_step
    height,      \* image.shape[2]
    width,       \* image.shape[3]
    alpha,       \* gradient_smoothing_factor
    lowpass,     \* the lowpass mask, <<>> before it is built
    tensors,     \* the tensor objects: data, requires_grad, grad (<<>> is None)
    selected,    \* selected_neuron_indicies
    epochs,
    lrRange,     \* <<lr_start, lr_end>>
    sigmaRange,  \* <<sigma_start, sigma_end>>
    lrs,
    sigmas,
    counter,     \* neuron_counter: entries of selected already started
    epoch,
    frame,       \* the running call of naive_gradient_ascent_step
    new_image,   \* reference held by mei, 0 before the first step returns
    meis,        \* the dict neuron -> reference
    calls,       \* history: the calls made for the current neuron
    rets,        \* history: the references those calls returned
    seed0,       \* history: the seed image's data when mei was called
    grads,       \* the gradients handed to the frequency-domain filter
    scalars,     \* <<a, b>>: the third gradient is a * grads[1] + b * grads[2]
    filtered,    \* what the filter returned for the gradients filtered so far
    args,        \* the arguments of the constructor (of a Filter, of a search)
    self,        \* the Filter object, <<>> while there is none
    raised,      \* the exception that ended the last call, "" when it returned
    resolution,  \* the side of the merge left open in Filter._fil_4d
    given,       \* history: the filter array handed to the calls, <<>> for None
    ret,         \* what the last call returned, <<>> when nothing
    trace,       \* history: the routines called so far
    bias,        \* the running call of __laplaceBias
    search       \* the Hyperparametersearch object, <<>> while there is none

vars ==
    <<pc, height, width, alpha, lowpass, tensors, selected, epochs, lrRange,
      sigmaRange, lrs, sigmas, counter, epoch, frame, new_image,
      meis, calls, rets, seed0, grads, scalars, filtered, args, self, raised,
      resolution, given, ret, trace, bias, search>>

filterVars == <<grads, scalars, filtered>>

linVars == <<args, self, raised, resolution, given, ret, trace, bias, search>>

meiVars ==
    <<tensors, selected, epochs, lrRange, sigmaRange, lrs, sigmas, counter,
      epoch, frame, new_image, meis, calls, rets, seed0>>

\* the reference of the caller's seed image
ImageRef == 1

None == <<>>

\* no gradient filtered on its own, no Filter object, no Laplace matrix
NoFilterCall == grads = <<>> /\ scalars = <<>> /\ filtered = <<>>

NoLinearFilter ==
    /\ args = None
    /\ self = None
    /\ raised = ""
    /\ resolution = ""
    /\ given = None
    /\ ret = None
    /\ trace = <<>>
    /\ bias = None
    /\ search = None

NoFrame ==
    [image |-> 0, neuron |-> 0, lr |-> Zero, sigma |-> Zero, maxBefore |-> Zero,
     a |-> None, rate |-> Zero, delta |-> None, pre |-> None]

Tensor(data, requires_grad) ==
    [data |-> data, requires_grad |-> requires_grad, grad |-> None]

(***************************************************************************)
(* naive_gradient_ascent_step (mei.py 64-117), statement by statement.     *)
(***************************************************************************)
\* the default step_gain and the literal 255 of the ascent update
StepGain == 1

ByteScale == 255

\* division by the mean instead of the maximum
NormalizedByMean(m) ==
    LET s == MeanT(m)
    IN  Eval([y \in 1..Height(m) |-> Eval([x \in 1..Width(m) |-> DivF(m[y][x], s)])])

\* image /= image.max()
Normalized(m) ==
    LET mx == MaxT(m)
    IN  Eval([y \in 1..Height(m) |-> Eval([x \in 1..Width(m) |-> DivF(m[y][x], mx)])])

\* x + 1e-12 in float32: 1e-12 is less than half an ulp of every |x| >= 2^-15
\* (ulp 2^-38), so the sum rounds to x; inf and NaN stay.  The rates of the
\* runs modelled here are all in that range.
EpsAbsorb == R(1, 32768)

AddEps(x) ==
    CASE ~IsFin(x) -> x
      [] IsFin(x) /\ LeqF(EpsAbsorb, AbsF(x)) -> x

\* lr / torch.abs(image.grad).mean() + 1e-12
Rate(lr, grad) == AddEps(DivF(lr, MeanT(AbsT(grad))))

\* (rate) * (step_gain / 255) * image.grad
AscentTerm(lr, grad) ==
    ScaleT(MulF(Rate(lr, grad), DivF(R(StepGain, 1), R(ByteScale, 1))), grad)

EnterStep(ref, neuron, lr, sigma) ==
    [NoFrame EXCEPT !.image = ref, !.neuron = neuron, !.lr = lr, !.sigma = sigma]

Normalize ==
    /\ pc = "normalize"
    /\ tensors' = [tensors EXCEPT ![frame.image].data = Normalized(@)]
    /\ frame' = [frame EXCEPT !.maxBefore = MaxT(tensors[frame.image].data)]
    /\ pc' = "backward"
    /\ UNCHANGED <<height, width, alpha, lowpass, selected, epochs, lrRange,
                   sigmaRange, lrs, sigmas, counter, epoch,
                   new_image, meis, calls, rets, seed0, filterVars, linVars>>

\* loss = loss_function(encoding_model(image), neuron_idx); loss.backward():
\* image.grad is set when the image requires grad, and stays None otherwise
Backward ==
    /\ pc = "backward"
    /\ tensors' =
         IF tensors[frame.image].requires_grad
         THEN [tensors EXCEPT ![frame.image].grad =
                   ModelGradient(frame.neuron, tensors[frame.image].data)]
         ELSE tensors
    /\ pc' = "filter"
    /\ UNCHANGED <<height, width, alpha, lowpass, selected, epochs, lrRange,
                   sigmaRange, lrs, sigmas, counter, epoch, frame,
                   new_image, meis, calls, rets, seed0, filterVars, linVars>>

\* loss.backward() raises when nothing in the graph requires grad: the image
\* does not, and whether a parameter of encoding_model does is not known here
BackwardRaises ==
    /\ pc = "backward"
    /\ ~tensors[frame.image].requires_grad
    /\ pc' = "error"
    /\ UNCHANGED <<height, width, alpha, lowpass, tensors, selected, epochs,
                   lrRange, sigmaRange, lrs, sigmas, counter, epoch,
                   frame, new_image, meis, calls, rets, seed0, filterVars, linVars>>

\* a = lowpass_filtering_in_frequency_domain(image.grad, lowpass)
FilterGradient ==
    /\ pc = "filter"
    /\ tensors[frame.image].grad # None
    /\ frame' = [frame EXCEPT !.a =
           lowpass_filtering_in_frequency_domain(tensors[frame.image].grad, lowpass)]
    /\ pc' = "update"
    /\ UNCHANGED <<height, width, alpha, lowpass, tensors, selected, epochs,
                   lrRange, sigmaRange, lrs, sigmas, counter, epoch,
                   new_image, meis, calls, rets, seed0, filterVars, linVars>>

\* image.grad is None: image_grad.new_tensor raises AttributeError
FilterRaises ==
    /\ pc = "filter"
    /\ tensors[frame.image].grad = None
    /\ pc' = "error"
    /\ UNCHANGED <<height, width, alpha, lowpass, tensors, selected, epochs,
                   lrRange, sigmaRange, lrs, sigmas, counter, epoch,
                   frame, new_image, meis, calls, rets, seed0, filterVars, linVars>>

\* image += (lr / torch.abs(image.grad).mean() + 1e-12) * (step_gain / 255) * image.grad
AscentUpdate ==
    /\ pc = "update"
    /\ LET t == tensors[frame.image]
           term == AscentTerm(frame.lr, t.grad)
       IN  /\ tensors' = [tensors EXCEPT ![frame.image].data = AddT(t.data, term)]
           /\ frame' = [frame EXCEPT !.rate = Rate(frame.lr, t.grad),
                                     !.delta = term,
                                     !.pre = t.data]
    /\ pc' = "blur"
    /\ UNCHANGED <<height, width, alpha, lowpass, selected, epochs, lrRange,
                   sigmaRange, lrs, sigmas, counter, epoch,
                   new_image, meis, calls, rets, seed0, filterVars, linVars>>

\* image = gaussian_blur(image, 3, sigma) under no_grad: a fresh tensor that
\* does not require grad; image.grad = None; return image
BlurReturn ==
    /\ pc = "blur"
    /\ tensors' = Append(tensors,
           Tensor(gaussian_blur(tensors[frame.image].data, frame.sigma), FALSE))
    /\ new_image' = Len(tensors) + 1
    /\ rets' = Append(rets, Len(tensors) + 1)
    /\ pc' = "loop"
    /\ UNCHANGED <<height, width, alpha, lowpass, selected, epochs, lrRange,
                   sigmaRange, lrs, sigmas, counter, epoch, frame,
                   meis, calls, seed0, filterVars, linVars>>

(***************************************************************************)
(* mei (mei.py 120-262).                                                   *)
(***************************************************************************)
\* lowpass = get_lowpass_tensor(image); lrs, sigmas = torch.linspace(...)
MeiSetup ==
    /\ pc = "start"
    /\ lowpass' = get_lowpass_tensor(height, width, alpha)
    /\ lrs' = linspace(lrRange[1], lrRange[2], epochs)
    /\ sigmas' = linspace(sigmaRange[1], sigmaRange[2], epochs)
    /\ pc' = "neuron"
    /\ UNCHANGED <<height, width, alpha, tensors, selected, epochs, lrRange,
                   sigmaRange, counter, epoch, frame, new_image,
                   meis, calls, rets, seed0, filterVars, linVars>>

\* the seed tensor itself, without the clone
DetachAlias(heap, ref) ==
    [heap |-> [heap EXCEPT ![ref].requires_grad = TRUE], ref |-> ref]

\* old_image = image.detach().clone(); old_image.requires_grad = True
DetachClone(heap, ref) ==
    [heap |-> Append(heap, Tensor(heap[ref].data, TRUE)), ref |-> Len(heap) + 1]

\* the next neuron of the list: the initial step
NeuronStart ==
    /\ pc = "neuron"
    /\ counter < Len(selected)
    /\ LET old_image == DetachClone(tensors, ImageRef)
           neuron == selected[counter + 1]
       IN  /\ tensors' = old_image.heap
           /\ frame' = EnterStep(old_image.ref, neuron, lrs[1], sigmas[1])
           /\ calls' = <<[image |-> old_image.ref, lr |-> lrs[1], sigma |-> sigmas[1]]>>
    /\ rets' = <<>>
    /\ counter' = counter + 1
    /\ epoch' = 0
    /\ pc' = "normalize"
    /\ UNCHANGED <<height, width, alpha, lowpass, selected, epochs, lrRange,
                   sigmaRange, lrs, sigmas, new_image, meis, seed0, filterVars, linVars>>

\* for epoch in range(epochs - 1): epoch += 1; the next step on new_image
LoopStep ==
    /\ pc = "loop"
    /\ epoch < epochs - 1
    /\ epoch' = epoch + 1
    /\ frame' = EnterStep(new_image, frame.neuron, lrs[epoch + 2], sigmas[epoch + 2])
    /\ calls' = Append(calls,
           [image |-> new_image, lr |-> lrs[epoch + 2], sigma |-> sigmas[epoch + 2]])
    /\ pc' = "normalize"
    /\ UNCHANGED <<height, width, alpha, lowpass, tensors, selected, epochs,
                   lrRange, sigmaRange, lrs, sigmas, counter,
                   new_image, meis, rets, seed0, filterVars, linVars>>

\* the loop is over: meis[neuron] = new_image
StoreMei ==
    /\ pc = "loop"
    /\ epoch >= epochs - 1
    /\ meis' = [n \in DOMAIN meis \cup {frame.neuron} |->
                   IF n = frame.neuron THEN new_image ELSE meis[n]]
    /\ pc' = "neuron"
    /\ UNCHANGED <<height, width, alpha, lowpass, tensors, selected, epochs,
                   lrRange, sigmaRange, lrs, sigmas, counter, epoch,
                   frame, new_image, calls, rets, seed0, filterVars, linVars>>

\* return meis
MeiReturn ==
    /\ pc = "neuron"
    /\ counter = Len(selected)
    /\ pc' = "done"
    /\ UNCHANGED <<height, width, alpha, lowpass, tensors, selected, epochs,
                   lrRange, sigmaRange, lrs, sigmas, counter, epoch,
                   frame, new_image, meis, calls, rets, seed0, filterVars, linVars>>

Init ==
    /\ pc = "start"
    /\ \E seed \in Seeds :
         /\ tensors = <<Tensor(seed, FALSE)>>
         /\ seed0 = seed
         /\ height = Height(seed)
         /\ width = Width(seed)
    /\ alpha = DefaultAlpha
    /\ lowpass = None
    /\ selected \in SeqsUpTo(Neurons, MaxSelected)
    /\ epochs \in 1..MaxEpochs
    /\ lrRange \in LrPairs
    /\ sigmaRange \in SigmaPairs
    /\ lrs = <<>>
    /\ sigmas = <<>>
    /\ counter = 0
    /\ epoch = 0
    /\ frame = NoFrame
    /\ new_image = 0
    /\ meis = <<>>
    /\ calls = <<>>
    /\ rets = <<>>
    /\ NoFilterCall
    /\ NoLinearFilter

Next ==
    \/ MeiSetup
    \/ NeuronStart
    \/ Normalize
    \/ Backward
    \/ BackwardRaises
    \/ FilterGradient
    \/ FilterRaises
    \/ AscentUpdate
    \/ BlurReturn
    \/ LoopStep
    \/ StoreMei
    \/ MeiReturn

Spec == Init /\ [][Next]_vars

(***************************************************************************)
(* The lowpass mask on its own: get_lowpass_tensor for every shape up to   *)
(* MaxDim x MaxDim and every exponent of AlphaSet.                         *)
(***************************************************************************)
BuildLowpass ==
    /\ pc = "mask"
    /\ lowpass' = get_lowpass_tensor(height, width, alpha)
    /\ pc' = "built"
    /\ UNCHANGED <<height, width, alpha, tensors, selected, epochs, lrRange,
                   sigmaRange, lrs, sigmas, counter, epoch, frame,
                   new_image, meis, calls, rets, seed0, filterVars, linVars>>

MaskInit ==
    /\ pc = "mask"
    /\ height \in 1..MaxDim
    /\ width \in 1..MaxDim
    /\ alpha \in AlphaSet
    /\ lowpass = None
    /\ tensors = <<>>
    /\ seed0 = None
    /\ selected = <<>>
    /\ epochs = 1
    /\ lrRange = <<One, One>>
    /\ sigmaRange = <<One, One>>
    /\ lrs = <<>>
    /\ sigmas = <<>>
    /\ counter = 0
    /\ epoch = 0
    /\ frame = NoFrame
    /\ new_image = 0
    /\ meis = <<>>
    /\ calls = <<>>
    /\ rets = <<>>
    /\ NoFilterCall
    /\ NoLinearFilter

MaskNext == BuildLowpass

SpecMask == MaskInit /\ [][MaskNext]_vars

(***************************************************************************)
(* The gradient filter on its own: lowpass_filtering_in_frequency_domain   *)
(* applied to two gradients and to a linear combination of them, with the  *)
(* mask get_lowpass_tensor builds for the gradients' shape.                *)
(***************************************************************************)
FilterShapes == {<<1, 1>>, <<1, 4>>, <<2, 2>>, <<4, 4>>}

\* a gradient with two non-zero pixels, one with a single spike at (2, 2),
\* one without a zero pixel
Gradients(h, w) ==
    {LinearWeights(h, w), SeedImage(h, w, 0, 1), SeedImage(h, w, 1, -2)}

ScalarPairs == {<<R(1, 1), R(1, 1)>>, <<R(2, 1), R(-1, 1)>>}

FilterInit ==
    /\ pc = "mask"
    /\ \E s \in FilterShapes :
         /\ height = s[1]
         /\ width = s[2]
         /\ \E g1 \in Gradients(s[1], s[2]), g2 \in Gradients(s[1], s[2]),
               ab \in ScalarPairs :
              /\ scalars = ab
              /\ grads = <<g1, g2, AddT(ScaleT(ab[1], g1), ScaleT(ab[2], g2))>>
    /\ alpha \in AlphaSet
    /\ lowpass = None
    /\ filtered = <<>>
    /\ tensors = <<>>
    /\ seed0 = None
    /\ selected = <<>>
    /\ epochs = 1
    /\ lrRange = <<One, One>>
    /\ sigmaRange = <<One, One>>
    /\ lrs = <<>>
    /\ sigmas = <<>>
    /\ counter = 0
    /\ epoch = 0
    /\ frame = NoFrame
    /\ new_image = 0
    /\ meis = <<>>
    /\ calls = <<>>
    /\ rets = <<>>
    /\ NoLinearFilter

\* one call of the filter, for the next gradient
FilterCall ==
    /\ pc = "built"
    /\ Len(filtered) < Len(grads)
    /\ filtered' = Append(filtered,
           lowpass_filtering_in_frequency_domain(grads[Len(filtered) + 1], lowpass))
    /\ UNCHANGED <<pc, height, width, alpha, lowpass, grads, scalars, meiVars,
                   linVars>>

FilterNext == BuildLowpass \/ FilterCall

SpecFilter == FilterInit /\ [][FilterNext]_vars

(***************************************************************************)
(* numpy arrays (utility/lin_filter.py): a shape and the entries in        *)
(* row-major order.  kind is "ndarray" or "matrix": a numpy.matrix always  *)
(* has two axes (numpy's matrix.__array_finalize__).  A function call that *)
(* raises has the value Raise(exception); a method call yields the object  *)
(* as the call left it and the exception that ended it ("" for a return).  *)
(***************************************************************************)
Array(shape, data) == [kind |-> "ndarray", shape |-> shape, data |-> data]

Raise(e) == [raises |-> e]

IsRaise(v) == "raises" \in DOMAIN v

Returned(obj) == [self |-> obj, raises |-> ""]

Raised(obj, e) == [self |-> obj, raises |-> e]

RECURSIVE Size(_)
Size(shape) == IF shape = <<>> THEN 1 ELSE Head(shape) * Size(Tail(shape))

\* what numpy makes of the shape of a matrix: with more than two axes those
\* of length 1 are dropped, with fewer than two the matrix is a row
MatrixShape(shape) ==
    LET long == SelectSeq(shape, LAMBDA d : d > 1)
    IN  CASE Len(shape) = 2 -> shape
          [] Len(shape) > 2 /\ Len(long) = 2 -> long
          [] Len(shape) > 2 /\ Len(long) = 1 -> <<1, long[1]>>
          [] Len(shape) > 2 /\ Len(long) = 0 -> <<1, 1>>
          [] Len(shape) = 1 -> <<1, shape[1]>>
          [] Len(shape) = 0 -> <<1, 1>>

\* the array a with the shape `shape`; "shape too large to be a matrix" is
\* a ValueError
Shaped(a, shape) ==
    IF a.kind = "ndarray" THEN [a EXCEPT !.shape = shape]
    ELSE IF Len(SelectSeq(shape, LAMBDA d : d > 1)) > 2 THEN Raise("ValueError")
    ELSE [a EXCEPT !.shape = MatrixShape(shape)]

\* a.squeeze()
squeeze(a) == Shaped(a, SelectSeq(a.shape, LAMBDA d : d # 1))

\* a.reshape(shape): ValueError when the number of entries differs
reshape(a, shape) ==
    IF Size(shape) = Len(a.data) THEN Shaped(a, shape) ELSE Raise("ValueError")

\* entry (i, j) of an array with two axes, counted from 1
At(a, i, j) == a.data[(i - 1) * a.shape[2] + j]

\* the array with two axes and entry f[<<i, j>>] at (i, j)
Table(kind, rows, cols, f) ==
    [kind |-> kind, shape |-> <<rows, cols>>,
     data |-> Eval([k \in 1..(rows * cols) |->
                  f[<<((k - 1) \div cols) + 1, ((k - 1) % cols) + 1>>]])]

\* a.T, and np.moveaxis(a, [0, 1], [1, 0]), for an array with two axes
moveaxis(a) ==
    Table(a.kind, a.shape[2], a.shape[1],
          Eval([ij \in ((1..a.shape[2]) \X (1..a.shape[1])) |-> At(a, ij[2], ij[1])]))

\* the kind of the result of an operation on a and b
ResultKind(a, b) ==
    IF a.kind = "matrix" \/ b.kind = "matrix" THEN "matrix" ELSE "ndarray"

\* np.matmul(a, b) for arrays with two axes
matmul(a, b) ==
    IF a.shape[2] # b.shape[1] THEN Raise("ValueError")
    ELSE Table(ResultKind(a, b), a.shape[1], b.shape[2],
               Eval([ij \in ((1..a.shape[1]) \X (1..b.shape[2])) |->
                   SumSeq(Eval([t \in 1..a.shape[2] |->
                       MulF(At(a, ij[1], t), At(b, t, ij[2]))]))]))

\* a + c * b for arrays of the same shape
AddScaled(a, c, b) ==
    [kind |-> ResultKind(a, b), shape |-> a.shape,
     data |-> Eval([k \in 1..Len(a.data) |-> AddF(a.data[k], MulF(c, b.data[k]))])]

\* np.identity(n)
identity(n) ==
    Table("ndarray", n, n,
          Eval([ij \in ((1..n) \X (1..n)) |-> IF ij[1] = ij[2] THEN One ELSE Zero]))

\* numpy.linalg.pinv of a square array of size 1 or 2, exactly: the inverse
\* when there is one, the zero matrix for the zero matrix, and the
\* transpose divided by the sum of the squared entries for rank 1
pinv(a) ==
    LET n == a.shape[1]
        e == a.data
        det == AddF(MulF(e[1], e[4]), NegF(MulF(e[2], e[3])))
        sq == SumSeq(Eval([k \in 1..4 |-> MulF(e[k], e[k])]))
    IN  CASE n = 1 ->
               [a EXCEPT !.data = <<IF e[1] = Zero THEN Zero ELSE DivF(One, e[1])>>]
          [] n = 2 /\ det # Zero ->
               [a EXCEPT !.data = <<DivF(e[4], det), DivF(NegF(e[2]), det),
                                    DivF(NegF(e[3]), det), DivF(e[1], det)>>]
          [] n = 2 /\ det = Zero /\ sq = Zero -> a
          [] n = 2 /\ det = Zero /\ sq # Zero ->
               [a EXCEPT !.data = <<DivF(e[1], sq), DivF(e[3], sq),
                                    DivF(e[2], sq), DivF(e[4], sq)>>]

(***************************************************************************)
(* _reshape_filter_2d and the class Filter (lin_filter.py 21-409).         *)
(***************************************************************************)
_reshape_filter_2d(fil) ==
    IF Len(fil.shape) # 4 THEN Raise("AssertionError")
    ELSE LET neuron_count == fil.shape[1]
             dim1 == fil.shape[3]
             dim2 == fil.shape[4]
             flat == reshape(squeeze(fil), <<neuron_count, dim1 * dim2>>)
         IN  IF IsRaise(flat) THEN flat ELSE moveaxis(flat)

RegTypes == {"laplace regularized", "ridge regularized", "whitened", "raw"}

\* the solver bound whatever the type
BoundSolverRaw(reg_type) == "_normal_filter"

\* the if / elif chain that binds self._compute_filter
BoundSolver(reg_type) ==
    IF reg_type = "laplace regularized" THEN "_laplace_regularized_filter"
    ELSE IF reg_type = "ridge regularized" THEN "_ridge_regularized_filter"
    ELSE IF reg_type = "whitened" THEN "_whitened_filter"
    ELSE "_normal_filter"

\* Filter.__init__: the object, or the AssertionError of the type check
__init__(images, responses, reg_type, reg_factor) ==
    IF reg_type \notin RegTypes THEN Raise("AssertionError")
    ELSE [images |-> images,
          image_count |-> images.shape[1],
          channels |-> images.shape[2],
          dim1 |-> images.shape[3],
          dim2 |-> images.shape[4],
          responses |-> responses,
          neuron_count |-> responses.shape[2],
          reg_factor |-> reg_factor,
          reg_type |-> reg_type,
          _compute_filter |-> BoundSolver(reg_type),
          fil |-> None,
          prediction |-> None,
          corr |-> None]

_image_2d(obj) ==
    LET flat == reshape(obj.images, <<obj.image_count, obj.dim1 * obj.dim2>>)
    IN  IF IsRaise(flat) THEN Raised(obj, flat.raises)
        ELSE Returned([obj EXCEPT !.images = flat])

\* the assert sits inside the if: a filter that is not 4D is left as it is
_fil_2d(obj) ==
    IF Len(obj.fil.shape) = 4
    THEN LET squeezed == [obj EXCEPT !.fil = squeeze(obj.fil)]
             flat == reshape(squeezed.fil, <<obj.neuron_count, obj.dim1 * obj.dim2>>)
         IN  IF IsRaise(flat) THEN Raised(squeezed, flat.raises)
             ELSE Returned([obj EXCEPT !.fil = moveaxis(flat)])
    ELSE Returned(obj)

\* the two sides of the merge left open in _fil_4d (lines 231-236): HEAD
\* starts with self.fil = self.fil.numpy(), which a numpy array does not
\* have; the other side has the docstring only
Resolutions == {"HEAD", "e69bf15"}

_fil_4d(obj, side) ==
    IF side = "HEAD" THEN Raised(obj, "AttributeError")
    ELSE IF Len(obj.fil.shape) = 2
    THEN LET moved == [obj EXCEPT !.fil = moveaxis(obj.fil)]
             shaped == reshape(moved.fil,
                           <<obj.neuron_count, obj.channels, obj.dim1, obj.dim2>>)
         IN  IF IsRaise(shaped) THEN Raised(moved, shaped.raises)
             ELSE Returned([obj EXCEPT !.fil = shaped])
    ELSE Returned(obj)

(***************************************************************************)
(* The solvers (lin_filter.py 248-361).  Each reshapes the images first;   *)
(* X is the flattened image matrix, one row an image.                      *)
(***************************************************************************)
\* the product shrunk by the regularization factor
_normal_filterShrunk(obj, responses, reg_factor) ==
    LET o == _image_2d(obj)
        xty == matmul(moveaxis(o.self.images), responses)
    IN  IF o.raises # "" THEN Raise(o.raises)
        ELSE IF IsRaise(xty) THEN xty
        ELSE [xty EXCEPT !.data = Eval([k \in 1..Len(xty.data) |->
                 DivF(xty.data[k], AddF(One, reg_factor))])]

_normal_filter(obj, responses, reg_factor) ==
    LET o == _image_2d(obj)
    IN  IF o.raises # "" THEN Raise(o.raises)
        ELSE matmul(moveaxis(o.self.images), responses)

_whitened_filter(obj, responses, reg_factor) ==
    LET o == _image_2d(obj)
        X == o.self.images
        xty == matmul(moveaxis(X), responses)
    IN  IF o.raises # "" THEN Raise(o.raises)
        ELSE IF IsRaise(xty) THEN xty
        ELSE matmul(pinv(matmul(moveaxis(X), X)), xty)

\* the penalty is the identity whatever the factor
_ridge_regularized_filterUnit(obj, responses, reg_factor) ==
    LET o == _image_2d(obj)
        X == o.self.images
        xty == matmul(moveaxis(X), responses)
    IN  IF o.raises # "" THEN Raise(o.raises)
        ELSE IF IsRaise(xty) THEN xty
        ELSE matmul(pinv(AddScaled(matmul(moveaxis(X), X), One,
                                   identity(obj.dim1 * obj.dim2))), xty)

_ridge_regularized_filter(obj, responses, reg_factor) ==
    LET o == _image_2d(obj)
        X == o.self.images
        xty == matmul(moveaxis(X), responses)
    IN  IF o.raises # "" THEN Raise(o.raises)
        ELSE IF IsRaise(xty) THEN xty
        ELSE matmul(pinv(AddScaled(matmul(moveaxis(X), X), reg_factor,
                                   identity(obj.dim1 * obj.dim2))), xty)

\* the frame of a call of __laplaceBias: S is the list of the rows written
BiasFrame(sizex, sizey) ==
    [sizex |-> sizex, sizey |-> sizey, x |-> 0, y |-> 0,
     S |-> Eval([r \in 1..(sizex * sizey) |-> Eval([c \in 1..(sizex * sizey) |-> 0])])]

\* the left and right neighbours taken at the flat index, without the
\* check of the end of the line
StencilAcrossLines(sizex, sizey, x, y) ==
    Eval([k \in 1..(sizex * sizey) |->
        LET d == (k - 1) - (x * sizey + y)
        IN  IF d = 0 THEN 4
            ELSE IF d \in {-1, 1, -sizey, sizey} THEN -1 ELSE 0])

\* norm.flatten(): 4 at (x, y), -1 at the neighbours inside the grid
Stencil(sizex, sizey, x, y) ==
    Eval([k \in 1..(sizex * sizey) |->
        LET i == (k - 1) \div sizey
            j == (k - 1) % sizey
        IN  IF i = x /\ j = y THEN 4
            ELSE IF (i = x - 1 /\ j = y /\ x > 0)
                    \/ (i = x + 1 /\ j = y /\ x < sizex - 1)
                    \/ (i = x /\ j = y - 1 /\ y > 0)
                    \/ (i = x /\ j = y + 1 /\ y < sizey - 1) THEN -1
            ELSE 0])

\* the row the loop body writes for (x, y), counted from 0
StencilRow(b) == b.x * b.sizex + b.y

BiasDone(b) == b.x = b.sizex

\* one pass of the loop body: assigning to a row outside S is an IndexError
BiasStep(b) ==
    IF StencilRow(b) >= b.sizex * b.sizey THEN Raise("IndexError")
    ELSE [b EXCEPT !.S[StencilRow(b) + 1] = Stencil(b.sizex, b.sizey, b.x, b.y),
                   !.x = IF b.y = b.sizey - 1 THEN b.x + 1 ELSE b.x,
                   !.y = IF b.y = b.sizey - 1 THEN 0 ELSE b.y + 1]

RECURSIVE BiasLoop(_)
BiasLoop(b) ==
    IF BiasDone(b) THEN b
    ELSE LET after == BiasStep(b)
         IN  IF IsRaise(after) THEN after ELSE BiasLoop(after)

\* np.mat(S)
__laplaceBias(sizex, sizey) ==
    LET b == BiasLoop(BiasFrame(sizex, sizey))
        n == sizex * sizey
    IN  IF IsRaise(b) THEN b
        ELSE Table("matrix", n, n, Eval([ij \in ((1..n) \X (1..n)) |-> R(b.S[ij[1]][ij[2]], 1)]))

\* the regression uses self.responses, not the responses it is handed
_laplace_regularized_filter(obj, responses, reg_factor) ==
    LET o == _image_2d(obj)
        laplace == __laplaceBias(obj.dim1, obj.dim2)
        X == o.self.images
        y == obj.responses
        inv == pinv(AddScaled(matmul(moveaxis(X), X), reg_factor, laplace))
        A == matmul(inv, moveaxis(X))
    IN  IF o.raises # "" THEN Raise(o.raises)
        ELSE IF IsRaise(laplace) THEN laplace
        ELSE matmul(A, y)

\* the call through the bound method self._compute_filter
_compute_filter(obj, responses, reg_factor) ==
    CASE obj._compute_filter = "_laplace_regularized_filter" ->
             _laplace_regularized_filter(obj, responses, reg_factor)
      [] obj._compute_filter = "_ridge_regularized_filter" ->
             _ridge_regularized_filter(obj, responses, reg_factor)
      [] obj._compute_filter = "_whitened_filter" ->
             _whitened_filter(obj, responses, reg_factor)
      [] obj._compute_filter = "_normal_filter" ->
             _normal_filter(obj, responses, reg_factor)

_handle_train_parsing(obj, reg_factor) ==
    IF reg_factor = None THEN obj.reg_factor ELSE reg_factor

\* GlobalRegularizationFilter.train; what it returns is self.fil
train(obj, reg_factor, side) ==
    Let(_image_2d(obj), LAMBDA flat :
        IF flat.raises # "" THEN flat
        ELSE Let(_compute_filter(flat.self, flat.self.responses,
                                 _handle_train_parsing(obj, reg_factor)), LAMBDA fil :
                 IF IsRaise(fil) THEN Raised(flat.self, fil.raises)
                 ELSE _fil_4d([flat.self EXCEPT !.fil = fil], side)))

(***************************************************************************)
(* Bounds and inputs of the linear filters.                                *)
(***************************************************************************)
\* largest number of images, and of rows of the responses
MaxImages == 2

\* largest number of neurons
MaxNeurons == 2

\* largest side of the grid of a Laplace matrix built on its own
MaxGrid == 4

\* largest number of reshaping calls in a row
MaxCalls == 2

ChannelCounts == {1, 2}

\* (dim1, dim2) of the images
Grids == {<<1, 1>>, <<1, 2>>, <<2, 1>>, <<2, 2>>}

\* the regularization factors; 10 is the default of the code
Factors == {R(0, 1), R(10, 1)}

\* images with entries 0, 1 and 2: entry k is k * k mod 3 + (k mod 4) div 3
Images(count, channels, dim1, dim2) ==
    Array(<<count, channels, dim1, dim2>>,
          Eval([k \in 1..(count * channels * dim1 * dim2) |->
              R(((k * k) % 3) + ((k % 4) \div 3), 1)]))

\* responses with entries -1, 0 and 1
Responses(rows, neurons) ==
    Array(<<rows, neurons>>, Eval([k \in 1..(rows * neurons) |-> R((k % 3) - 1, 1)]))

\* no mei run and no mask
NoMeiRun ==
    /\ height = 1
    /\ width = 1
    /\ alpha = DefaultAlpha
    /\ lowpass = None
    /\ tensors = <<>>
    /\ seed0 = None
    /\ selected = <<>>
    /\ epochs = 1
    /\ lrRange = <<One, One>>
    /\ sigmaRange = <<One, One>>
    /\ lrs = <<>>
    /\ sigmas = <<>>
    /\ counter = 0
    /\ epoch = 0
    /\ frame = NoFrame
    /\ new_image = 0
    /\ meis = <<>>
    /\ calls = <<>>
    /\ rets = <<>>

maskVars == <<height, width, alpha, lowpass>>

(***************************************************************************)
(* A GlobalRegularizationFilter: construction, then one call of train.     *)
(***************************************************************************)
LinInit ==
    /\ pc = "new"
    /\ \E count \in 1..MaxImages, rows \in 1..MaxImages, neurons \in 1..MaxNeurons,
          channels \in ChannelCounts, grid \in Grids,
          reg_type \in RegTypes \cup {"lasso"}, reg_factor \in Factors :
         \* pinv is modelled for the sizes 1 and 2
         /\ grid[1] * grid[2] \in {1, 2} \/ reg_type \in {"raw", "lasso"}
         /\ args = [images |-> Images(count, channels, grid[1], grid[2]),
                    responses |-> Responses(rows, neurons),
                    reg_type |-> reg_type,
                    reg_factor |-> reg_factor]
    /\ resolution \in Resolutions
    /\ self = None
    /\ raised = ""
    /\ given = None
    /\ ret = None
    /\ trace = <<>>
    /\ bias = None
    /\ search = None
    /\ NoFilterCall
    /\ NoMeiRun

Construct ==
    /\ pc = "new"
    /\ LET obj == __init__(args.images, args.responses, args.reg_type, args.reg_factor)
       IN  /\ ~IsRaise(obj)
           /\ self' = obj
    /\ pc' = "constructed"
    /\ UNCHANGED <<args, raised, resolution, given, ret, trace, bias,
                   maskVars, meiVars, filterVars, search>>

ConstructRaises ==
    /\ pc = "new"
    /\ LET obj == __init__(args.images, args.responses, args.reg_type, args.reg_factor)
       IN  /\ IsRaise(obj)
           /\ raised' = obj.raises
    /\ pc' = "failed"
    /\ UNCHANGED <<args, self, resolution, given, ret, trace, bias,
                   maskVars, meiVars, filterVars, search>>

Train ==
    /\ pc = "constructed"
    /\ \E reg_factor \in Factors \cup {None} :
         Let(train(self, reg_factor, resolution), LAMBDA o :
             /\ self' = o.self
             /\ raised' = o.raises
             /\ ret' = IF o.raises = "" THEN o.self.fil ELSE None
             /\ trace' = Append(trace, [call |-> "train", reg_factor |-> reg_factor]))
    /\ pc' = "trained"
    /\ UNCHANGED <<args, resolution, given, bias, maskVars, meiVars, filterVars, search>>

LinNext == Construct \/ ConstructRaises \/ Train

SpecLin == LinInit /\ [][LinNext]_vars

(***************************************************************************)
(* The reshaping routines on their own: a Filter object that was handed a  *)
(* filter array, and up to MaxCalls calls.                                 *)
(***************************************************************************)
\* arrays with 4, 2, 1 and 3 axes; entry k is k
GivenFilters(neurons, channels, dim1, dim2) ==
    {Array(shape, Eval([k \in 1..Size(shape) |-> R(k, 1)])) :
        shape \in {<<neurons, channels, dim1, dim2>>, <<dim1 * dim2, neurons>>,
                   <<neurons * dim1 * dim2>>, <<neurons, dim1, dim2>>}}

ReshapeInit ==
    /\ pc = "reshape"
    /\ \E neurons \in 1..MaxNeurons, channels \in ChannelCounts, grid \in Grids :
         /\ given \in GivenFilters(neurons, channels, grid[1], grid[2])
         /\ args = [images |-> Images(1, channels, grid[1], grid[2]),
                    responses |-> Responses(1, neurons),
                    reg_type |-> "raw",
                    reg_factor |-> Zero]
    /\ self = [__init__(args.images, args.responses, args.reg_type, args.reg_factor)
                  EXCEPT !.fil = given]
    /\ resolution \in Resolutions
    /\ raised = ""
    /\ ret = None
    /\ trace = <<>>
    /\ bias = None
    /\ search = None
    /\ NoFilterCall
    /\ NoMeiRun

CanCall == pc = "reshape" /\ raised = "" /\ Len(trace) < MaxCalls

\* the module's function, called with the object's filter
CallReshapeFilter2d ==
    /\ CanCall
    /\ LET r == _reshape_filter_2d(self.fil)
       IN  /\ raised' = IF IsRaise(r) THEN r.raises ELSE ""
           /\ ret' = IF IsRaise(r) THEN None ELSE r
    /\ trace' = Append(trace, "_reshape_filter_2d")
    /\ UNCHANGED <<pc, args, self, resolution, given, bias, maskVars, meiVars,
                   filterVars, search>>

CallFil2d ==
    /\ CanCall
    /\ LET o == _fil_2d(self)
       IN  /\ self' = o.self
           /\ raised' = o.raises
    /\ trace' = Append(trace, "_fil_2d")
    /\ UNCHANGED <<pc, args, resolution, given, ret, bias, maskVars, meiVars,
                   filterVars, search>>

CallFil4d ==
    /\ CanCall
    /\ LET o == _fil_4d(self, resolution)
       IN  /\ self' = o.self
           /\ raised' = o.raises
    /\ trace' = Append(trace, "_fil_4d")
    /\ UNCHANGED <<pc, args, resolution, given, ret, bias, maskVars, meiVars,
                   filterVars, search>>

ReshapeNext == CallReshapeFilter2d \/ CallFil2d \/ CallFil4d

SpecReshape == ReshapeInit /\ [][ReshapeNext]_vars

(***************************************************************************)
(* __laplaceBias on its own, one pass of the loop body at a time.          *)
(***************************************************************************)
LaplaceInit ==
    /\ pc = "laplace"
    /\ \E sizex \in 1..MaxGrid, sizey \in 1..MaxGrid : bias = BiasFrame(sizex, sizey)
    /\ args = None
    /\ self = None
    /\ raised = ""
    /\ resolution = ""
    /\ given = None
    /\ ret = None
    /\ trace = <<>>
    /\ search = None
    /\ NoFilterCall
    /\ NoMeiRun

BiasRow ==
    /\ pc = "laplace"
    /\ ~BiasDone(bias)
    /\ ~IsRaise(BiasStep(bias))
    /\ bias' = BiasStep(bias)
    /\ UNCHANGED <<pc, args, self, raised, resolution, given, ret, trace,
                   maskVars, meiVars, filterVars, search>>

BiasRaises ==
    /\ pc = "laplace"
    /\ ~BiasDone(bias)
    /\ IsRaise(BiasStep(bias))
    /\ raised' = BiasStep(bias).raises
    /\ pc' = "failed"
    /\ UNCHANGED <<args, self, resolution, given, ret, trace, bias,
                   maskVars, meiVars, filterVars, search>>

BiasReturn ==
    /\ pc = "laplace"
    /\ BiasDone(bias)
    /\ ret' = bias.S
    /\ pc' = "returned"
    /\ UNCHANGED <<args, self, raised, resolution, given, trace, bias,
                   maskVars, meiVars, filterVars, search>>

LaplaceNext == BiasRow \/ BiasRaises \/ BiasReturn

SpecLaplace == LaplaceInit /\ [][LaplaceNext]_vars

(***************************************************************************)
(* IndividualRegularizationFilter (lin_filter.py 439-470): construction,   *)
(* then one call of train.  np.empty leaves the entries of the array as    *)
(* they happen to be in memory: every entry that is not assigned holds a   *)
(* value `junk` that the call does not choose.                             *)
(***************************************************************************)
\* lists of regularization factors, one shorter and one longer than the
\* largest number of neurons but one
FactorLists ==
    {<<R(10, 1)>>, <<R(0, 1), R(10, 1)>>, <<R(10, 1), R(0, 1), R(10, 1)>>}

JunkValues == {Zero, R(7, 1)}

\* IndividualRegularizationFilter.__init__
IndividualRegularizationFilter(images, responses, reg_type, reg_factor) ==
    LET obj == __init__(images, responses, reg_type, reg_factor)
    IN  IF IsRaise(obj) THEN obj
        ELSE IF reg_factor = None
        THEN [obj EXCEPT !.reg_factor = Eval([i \in 1..obj.neuron_count |-> R(10, 1)])]
        ELSE obj

\* self.responses[:, neuron], neuron counted from 0
Column(a, neuron) ==
    Array(<<a.shape[1]>>, Eval([i \in 1..a.shape[1] |-> At(a, i, neuron + 1)]))

\* whether an array of this shape can be assigned to a column of n entries:
\* only leading axes of length 1 are dropped
FitsColumn(shape, n) ==
    \/ shape = <<>>
    \/ /\ shape # <<>>
       /\ \A i \in 1..(Len(shape) - 1) : shape[i] = 1
       /\ shape[Len(shape)] \in {1, n}

\* filters[:, neuron] = value
AssignColumn(filters, neuron, value) ==
    [filters EXCEPT !.data = Eval([k \in 1..Len(filters.data) |->
        IF (k - 1) % filters.shape[2] = neuron
        THEN value.data[IF Len(value.data) = 1 THEN 1
                        ELSE ((k - 1) \div filters.shape[2]) + 1]
        ELSE filters.data[k]])]

\* one pass of the loop body of train: flat is what self._image_2d() left,
\* response the column of the neuron, fil the solver result; loop holds
\* the object, the array filters, the exception if any, the columns
\* assigned and the shapes of the solver results so far
IndividualPass(loop, neuron, flat, response, fil) ==
    IF flat.raises # "" THEN [loop EXCEPT !.raises = flat.raises]
    ELSE IF IsRaise(response)
         THEN [loop EXCEPT !.self = flat.self, !.raises = response.raises]
    ELSE IF IsRaise(fil)
         THEN [loop EXCEPT !.self = flat.self, !.raises = fil.raises]
    ELSE IF ~FitsColumn(squeeze(fil).shape, loop.filters.shape[1])
         THEN [loop EXCEPT !.self = flat.self,
                           !.shapes = Append(@, fil.shape),
                           !.raises = "ValueError"]
    ELSE [loop EXCEPT !.self = flat.self,
                      !.shapes = Append(@, fil.shape),
                      !.filters = AssignColumn(@, neuron, squeeze(fil)),
                      !.columns = Append(@, neuron)]

\* the loop of train from `neuron` on: zip stops at the shorter of
\* range(neuron_count) and reg_factors
RECURSIVE IndividualLoop(_, _, _)
IndividualLoop(loop, reg_factors, neuron) ==
    IF loop.raises # "" \/ neuron >= loop.self.neuron_count \/ neuron >= Len(reg_factors)
    THEN loop
    ELSE IndividualLoop(
             IndividualPass(loop, neuron, _image_2d(loop.self),
                 reshape(Column(loop.self.responses, neuron),
                         <<loop.self.image_count, 1>>),
                 _compute_filter(_image_2d(loop.self).self,
                     reshape(Column(loop.self.responses, neuron),
                             <<loop.self.image_count, 1>>),
                     reg_factors[neuron + 1])),
             reg_factors, neuron + 1)

\* IndividualRegularizationFilter.train; what it returns is self.fil
IndividualTrain(obj, reg_factors, side, junk) ==
    Let(IndividualLoop([self |-> obj, raises |-> "",
                        filters |-> Array(<<obj.dim1 * obj.dim2, obj.neuron_count>>,
                            Eval([k \in 1..(obj.dim1 * obj.dim2 * obj.neuron_count) |->
                                junk])),
                        columns |-> <<>>, shapes |-> <<>>],
                       _handle_train_parsing(obj, reg_factors), 0),
        LAMBDA loop :
            IF loop.raises # "" THEN loop
            ELSE Let(_fil_4d([loop.self EXCEPT !.fil = loop.filters], side),
                     LAMBDA shaped :
                         [loop EXCEPT !.self = shaped.self, !.raises = shaped.raises]))

IndividualInit ==
    /\ pc = "new"
    /\ \E count \in 1..MaxImages, rows \in 1..MaxImages, neurons \in 1..MaxNeurons,
          channels \in ChannelCounts, grid \in Grids,
          reg_type \in RegTypes \cup {"lasso"}, reg_factor \in FactorLists \cup {None} :
         \* pinv is modelled for the sizes 1 and 2
         /\ grid[1] * grid[2] \in {1, 2} \/ reg_type \in {"raw", "lasso"}
         /\ args = [images |-> Images(count, channels, grid[1], grid[2]),
                    responses |-> Responses(rows, neurons),
                    reg_type |-> reg_type,
                    reg_factor |-> reg_factor]
    /\ resolution \in Resolutions
    /\ self = None
    /\ raised = ""
    /\ given = None
    /\ ret = None
    /\ trace = <<>>
    /\ bias = None
    /\ search = None
    /\ NoFilterCall
    /\ NoMeiRun

ConstructIndividual ==
    /\ pc = "new"
    /\ LET obj == IndividualRegularizationFilter(args.images, args.responses,
                                                 args.reg_type, args.reg_factor)
       IN  /\ ~IsRaise(obj)
           /\ self' = obj
    /\ pc' = "constructed"
    /\ UNCHANGED <<args, raised, resolution, given, ret, trace, bias,
                   maskVars, meiVars, filterVars, search>>

TrainIndividual ==
    /\ pc = "constructed"
    /\ \E reg_factors \in FactorLists \cup {None}, junk \in JunkValues :
         Let(IndividualTrain(self, reg_factors, resolution, junk), LAMBDA o :
             /\ self' = o.self
             /\ raised' = o.raises
             /\ ret' = IF o.raises = "" THEN o.self.fil ELSE None
             /\ trace' = Append(trace, [call |-> "train", reg_factor |-> reg_factors,
                                        filters |-> o.filters,
                                        columns |-> o.columns, shapes |-> o.shapes]))
    /\ pc' = "trained"
    /\ UNCHANGED <<args, resolution, given, bias, maskVars, meiVars, filterVars,
                   search>>

IndividualNext == ConstructIndividual \/ ConstructRaises \/ TrainIndividual

SpecIndividual == IndividualInit /\ [][IndividualNext]_vars

(***************************************************************************)
(* Filter.predict and Filter.evaluate (lin_filter.py 99-195, 373-409).     *)
(* A Pearson coefficient is kept exactly, as its sign and its square.      *)
(***************************************************************************)
\* the sum that is not divided by the number of entries
SumNotDivided(xs) == SumSeq(xs)

\* Series.mean(), np.mean
Mean(xs) == DivF(SumSeq(xs), R(Len(xs), 1))

\* the sum of the products of the deviations of xs and ys from their means
Deviations(xs, ys) ==
    SumSeq(Eval([i \in 1..Len(xs) |->
        MulF(AddF(xs[i], NegF(Mean(xs))), AddF(ys[i], NegF(Mean(ys))))]))

\* np.corrcoef(xs, ys)[0, 1]: nan when a variance is 0 (one sample included)
corrcoef(xs, ys) ==
    IF Len(xs) # Len(ys) THEN Raise("ValueError")
    ELSE LET sxy == Deviations(xs, ys)
             den == MulF(Deviations(xs, xs), Deviations(ys, ys))
         IN  IF ~IsFin(sxy) \/ ~IsFin(den) \/ den = Zero THEN NaN
             ELSE [k |-> "corr", sign |-> SignF(sxy),
                   square |-> DivF(MulF(sxy, sxy), den)]

\* what a method leaves: the object, the exception if any, the value
Outcome(obj, e, value) == [self |-> obj, raises |-> e, value |-> value]

\* the passes of a loop over the neurons 0..count-1 that correlates column
\* `neuron` of the prediction with column `neuron` of the responses, up to
\* the first pass that raises
NeuronCorrelations(prediction, responses, count) ==
    Let(Eval([n \in 1..count |->
            IF n > prediction.shape[2] \/ n > responses.shape[2]
            THEN Raise("IndexError")
            ELSE corrcoef(Column(prediction, n - 1).data,
                          Column(responses, n - 1).data)]),
        LAMBDA pass :
            LET failing == {n \in 1..count : IsRaise(pass[n])}
                first == IF failing = {} THEN count + 1
                         ELSE CHOOSE n \in failing : \A m \in failing : n <= m
            IN  [done |-> SubSeq(pass, 1, first - 1),
                 raises |-> IF failing = {} THEN "" ELSE pass[first].raises])

_handle_predict_parsing(obj, fil, side) ==
    IF fil = None
    THEN Let(IF obj.fil = None THEN train(obj, None, side) ELSE Returned(obj),
             LAMBDA trained :
                 LET flat == _fil_2d(trained.self)
                     own == flat.self.fil
                     two == IF Len(own.shape) = 4 THEN _reshape_filter_2d(own) ELSE own
                 IN  IF trained.raises # ""
                     THEN Outcome(trained.self, trained.raises, None)
                     ELSE IF flat.raises # "" THEN Outcome(flat.self, flat.raises, None)
                     ELSE IF IsRaise(two) THEN Outcome(flat.self, two.raises, None)
                     ELSE Outcome(flat.self, "", two))
    ELSE LET two == IF Len(fil.shape) = 4 THEN _reshape_filter_2d(fil) ELSE fil
         IN  IF IsRaise(two) THEN Outcome(obj, two.raises, None)
             ELSE Outcome(obj, "", two)

\* Filter.predict; the value is (prediction, corr).  An entry of
\* single_neuron_correlations that no pass assigned holds `junk`.
predict(obj, fil, single_neuron_correlation, side, junk) ==
    Let(_handle_predict_parsing(obj, fil, side), LAMBDA parsed :
    IF parsed.raises # "" THEN parsed
    ELSE Let(_image_2d(parsed.self), LAMBDA flat :
    IF flat.raises # "" THEN Outcome(flat.self, flat.raises, None)
    ELSE Let(matmul(flat.self.images, parsed.value), LAMBDA product :
    IF IsRaise(product) THEN Outcome(flat.self, product.raises, None)
    ELSE Let([product EXCEPT !.kind = "ndarray"], LAMBDA prediction :
         Let(corrcoef(prediction.data, flat.self.responses.data), LAMBDA corr :
    IF IsRaise(corr)
    THEN Outcome([flat.self EXCEPT !.prediction = prediction], corr.raises, None)
    ELSE Let([flat.self EXCEPT !.prediction = prediction, !.corr = corr], LAMBDA scored :
    IF ~single_neuron_correlation THEN Outcome(scored, "", <<prediction, corr>>)
    ELSE Let(NeuronCorrelations(prediction, scored.responses, scored.neuron_count),
             LAMBDA single :
                 Outcome([single_neuron_correlations |->
                              Eval([n \in 1..scored.neuron_count |->
                                  IF n <= Len(single.done) THEN single.done[n]
                                  ELSE junk])] @@ scored,
                         single.raises,
                         IF single.raises = "" THEN <<prediction, corr>>
                         ELSE None))))))))

\* the value is computed_prediction
_handle_evaluate_parsing(obj, fil, side) ==
    IF fil = None
    THEN Let(IF obj.fil = None THEN train(obj, None, side) ELSE Returned(obj),
             LAMBDA trained :
    IF trained.raises # "" THEN Outcome(trained.self, trained.raises, None)
    ELSE IF trained.self.prediction # None
    THEN Outcome(trained.self, "", trained.self.prediction)
    ELSE Let(predict(trained.self, None, FALSE, side, Zero), LAMBDA predicted :
             IF predicted.raises # "" THEN predicted
             ELSE Outcome(predicted.self, "", predicted.self.prediction)))
    ELSE LET two == IF Len(fil.shape) = 4 THEN _reshape_filter_2d(fil) ELSE fil
         IN  IF IsRaise(two) THEN Outcome(obj, two.raises, None)
             ELSE Let(predict(obj, two, FALSE, side, Zero), LAMBDA predicted :
                      IF predicted.raises # "" THEN predicted
                      ELSE Outcome(predicted.self, "", predicted.value[1]))

\* Filter.evaluate with reports stored and no images drawn; the value is
\* neural_correlations, entry n + 1 the correlation of neuron n.  Line 151
\* reshapes the argument fil, which is still None when no filter was given.
evaluate(obj, fil, side) ==
    Let(_handle_evaluate_parsing(obj, fil, side), LAMBDA parsed :
    IF parsed.raises # "" THEN parsed
    ELSE IF fil = None THEN Outcome(parsed.self, "AttributeError", None)
    ELSE Let(_reshape_filter_2d(fil), LAMBDA two :
    IF IsRaise(two) THEN Outcome(parsed.self, two.raises, None)
    ELSE Let(NeuronCorrelations(parsed.value, parsed.self.responses,
                                parsed.value.shape[2]), LAMBDA loop :
    IF loop.raises # ""
    THEN Outcome([neural_correlations |-> loop.done] @@ parsed.self, loop.raises, None)
    ELSE Let(_fil_4d([([neural_correlations |-> loop.done] @@ parsed.self)
                          EXCEPT !.fil = two], side), LAMBDA shaped :
             Outcome(shaped.self, shaped.raises,
                     IF shaped.raises = "" THEN loop.done ELSE None)))))

\* the 4D filters handed to evaluate and predict; entry k is k mod 3
FilterArguments(obj) ==
    {Array(<<obj.neuron_count, channels, obj.dim1, obj.dim2>>,
           Eval([k \in 1..(obj.neuron_count * channels * obj.dim1 * obj.dim2) |->
               R(k % 3, 1)])) : channels \in {1, obj.channels}}

\* one call of evaluate on a GlobalRegularizationFilter, trained or not
Evaluate ==
    /\ pc \in {"constructed", "trained"}
    /\ \E fil \in FilterArguments(self) \cup {None} :
         Let(evaluate(self, fil, resolution), LAMBDA o :
             /\ self' = o.self
             /\ raised' = o.raises
             /\ ret' = o.value
             /\ given' = fil
             /\ trace' = Append(trace, [call |-> "evaluate", stored |-> self.fil]))
    /\ pc' = "evaluated"
    /\ UNCHANGED <<args, resolution, bias, maskVars, meiVars, filterVars, search>>

EvaluateNext == Construct \/ ConstructRaises \/ Train \/ Evaluate

SpecEvaluate == LinInit /\ [][EvaluateNext]_vars

(***************************************************************************)
(* The hyperparameter searches (lin_filter.py 473-609).  An attribute that *)
(* no statement has assigned yet is None.                                  *)
(***************************************************************************)
\* lists of distinct candidate factors
CandidateLists == {<<R(10, 1)>>, <<R(0, 1), R(10, 1)>>, <<R(0, 1), R(10, 1), R(100, 1)>>}

\* the correlations of a table that is assigned to df_corrs directly
CorrelationValues == {Zero, R(1, 2), One}

\* np.empty(shape)
empty(shape, junk) == Array(shape, Eval([k \in 1..Size(shape) |-> junk]))

\* Hyperparametersearch.__init__ and the two subclasses, which differ in
\* conduct_search only
Hyperparametersearch(kind, TrainFilter, ValidationFilter, reg_factors) ==
    [kind |-> kind,
     TrainFilter |-> TrainFilter,
     ValidationFilter |-> ValidationFilter,
     reg_factors |-> reg_factors,
     neuron_count |-> TrainFilter.neuron_count,
     neurons |-> Array(<<TrainFilter.neuron_count, 1>>,
                       Eval([i \in 1..TrainFilter.neuron_count |-> R(i - 1, 1)])),
     params |-> None, corrs |-> None, c |-> None,
     df_params |-> None, df_corrs |-> None, search |-> None,
     hyperparameters |-> None, single_neuron_correlations |-> None,
     results |-> None, avg_correlation |-> None]

\* self.df_corrs.max(axis=1), one entry per row
RowMaxima(table) ==
    Eval([n \in 1..table.shape[1] |->
        MaxSeq(Eval([k \in 1..table.shape[2] |-> At(table, n, k)]))])

\* self.df_params[mask].values.flatten() without its nan entries: the
\* parameters at the places of a row maximum, row by row
MaskedParameters(df_params, df_corrs) ==
    LET places == SelectSeq(Eval([k \in 1..Len(df_corrs.data) |-> k]),
                     LAMBDA k : df_corrs.data[k] =
                         RowMaxima(df_corrs)[((k - 1) \div df_corrs.shape[2]) + 1])
    IN  Eval([i \in 1..Len(places) |-> df_params.data[places[i]]])

\* np.hstack of column vectors of the same length
hstack(columns) ==
    Table("ndarray", Len(columns[1]), Len(columns),
          Eval([ij \in ((1..Len(columns[1])) \X (1..Len(columns))) |->
              columns[ij[2]][ij[1]]]))

\* the value is (results, avg_correlation); the report files are left out
compute_best_parameter(s, junk) ==
    LET begun == [s EXCEPT !.hyperparameters = empty(<<s.neuron_count>>, junk)]
        masked == MaskedParameters(s.df_params, s.df_corrs)
        maxima == RowMaxima(s.df_corrs)
        results == hstack(<<s.neurons.data, masked, maxima>>)
        done == [s EXCEPT !.hyperparameters = Array(<<s.neuron_count, 1>>, masked),
                          !.single_neuron_correlations =
                              Array(<<s.neuron_count, 1>>, maxima),
                          !.results = results,
                          !.avg_correlation = Mean(maxima)]
    IN  IF s.df_corrs = None \/ s.df_params = None
        THEN Outcome(begun, "AttributeError", None)
        ELSE IF Len(masked) # s.neuron_count THEN Outcome(begun, "ValueError", None)
        ELSE Outcome(done, "", <<results, done.avg_correlation>>)

\* one pass of the loop of conduct_search, for candidate number `position`
\* (from 1); loop holds the search object, the exception if any and the
\* factors train was called with
SearchPass(loop, position, side, junk) ==
    LET s == loop.self
        candidate == s.reg_factors[position]
        reg_factor == IF s.kind = "global" THEN candidate
                      ELSE Eval([i \in 1..s.neuron_count |-> candidate])
    IN  Let(IF s.kind = "global" THEN train(s.TrainFilter, reg_factor, side)
            ELSE IndividualTrain(s.TrainFilter, reg_factor, side, junk), LAMBDA fitted :
        Let([loop EXCEPT !.calls = Append(@, reg_factor),
                         !.self.TrainFilter = fitted.self], LAMBDA called :
        IF fitted.raises # "" THEN [called EXCEPT !.raises = fitted.raises]
        ELSE Let(predict(s.ValidationFilter, fitted.self.fil, s.kind # "global",
                         side, junk), LAMBDA predicted :
             Let([called EXCEPT !.self.ValidationFilter = predicted.self], LAMBDA scored :
        IF predicted.raises # "" THEN [scored EXCEPT !.raises = predicted.raises]
        ELSE IF s.kind = "global"
             THEN [scored EXCEPT !.self.c.data[position] = predicted.value[2]]
        ELSE IF Len(predicted.self.single_neuron_correlations) \notin {1, s.neuron_count}
             THEN [scored EXCEPT !.self.params =
                       AssignColumn(@, position - 1,
                                    Array(<<s.neuron_count>>, reg_factor)),
                                 !.raises = "ValueError"]
        ELSE [scored EXCEPT !.self.params =
                  AssignColumn(@, position - 1, Array(<<s.neuron_count>>, reg_factor)),
                            !.self.corrs =
                  AssignColumn(@, position - 1,
                      Array(<<Len(predicted.self.single_neuron_correlations)>>,
                            predicted.self.single_neuron_correlations))]))))

RECURSIVE SearchLoop(_, _, _, _)
SearchLoop(loop, position, side, junk) ==
    IF position > Len(loop.self.reg_factors) \/ loop.raises # "" THEN loop
    ELSE SearchLoop(SearchPass(loop, position, side, junk), position + 1, side, junk)

\* conduct_search of both subclasses.  The statement after the loops calls
\* pd.self.report_dataFrame (lines 565 and 602): the module pandas has no
\* attribute `self`, so the call ends there with an AttributeError and the
\* statements after it (df_corrs, search, return) are never reached.
conduct_search(s, side, junk) ==
    LET K == Len(s.reg_factors)
    IN  Let(SearchLoop([self |-> [s EXCEPT
                           !.params = empty(<<s.neuron_count, K>>, junk),
                           !.corrs = empty(<<s.neuron_count, K>>, junk),
                           !.c = IF s.kind = "global" THEN empty(<<K>>, junk) ELSE @],
                        raises |-> "", calls |-> <<>>], 1, side, junk), LAMBDA loop :
        IF loop.raises # "" THEN loop
        ELSE IF s.kind # "global" THEN [loop EXCEPT !.raises = "AttributeError"]
        ELSE [loop EXCEPT
                 !.self.params = Table("ndarray", s.neuron_count, K,
                     Eval([ij \in ((1..s.neuron_count) \X (1..K)) |->
                         s.reg_factors[ij[2]]])),
                 !.self.corrs = Table("ndarray", s.neuron_count, K,
                     Eval([ij \in ((1..s.neuron_count) \X (1..K)) |->
                         loop.self.c.data[ij[2]]])),
                 !.raises = "AttributeError"])

\* a search object whose two filters are constructed and not trained
SearchInit ==
    /\ pc = "ready"
    /\ \E kind \in {"global", "individual"}, count \in 1..MaxImages,
          held \in 1..MaxImages, neurons \in 1..MaxNeurons, scored \in 1..MaxNeurons,
          grid \in Grids, reg_type \in RegTypes, reg_factors \in CandidateLists :
         \* pinv is modelled for the sizes 1 and 2
         /\ grid[1] * grid[2] \in {1, 2} \/ reg_type = "raw"
         /\ args = [kind |-> kind,
                    TrainFilter |->
                        IF kind = "global"
                        THEN __init__(Images(count, 1, grid[1], grid[2]),
                                      Responses(count, neurons), reg_type, R(10, 1))
                        ELSE IndividualRegularizationFilter(
                                      Images(count, 1, grid[1], grid[2]),
                                      Responses(count, neurons), reg_type, None),
                    ValidationFilter |->
                        __init__(Images(held, 1, grid[1], grid[2]),
                                 Responses(held, scored), reg_type, R(10, 1)),
                    reg_factors |-> reg_factors]
    /\ search = Hyperparametersearch(args.kind, args.TrainFilter, args.ValidationFilter,
                                     args.reg_factors)
    /\ resolution \in Resolutions
    /\ self = None
    /\ raised = ""
    /\ given = None
    /\ ret = None
    /\ trace = <<>>
    /\ bias = None
    /\ NoFilterCall
    /\ NoMeiRun

ConductSearch ==
    /\ pc = "ready"
    /\ \E junk \in JunkValues :
         Let(conduct_search(search, resolution, junk), LAMBDA o :
             /\ search' = o.self
             /\ raised' = o.raises
             /\ trace' = Append(trace, [call |-> "conduct_search", trained |-> o.calls]))
    /\ ret' = None
    /\ pc' = "searched"
    /\ UNCHANGED <<args, self, resolution, given, bias, maskVars, meiVars, filterVars>>

\* compute_best_parameter on the search object as it is
ComputeBest ==
    /\ pc = "searched"
    /\ \E junk \in JunkValues :
         Let(compute_best_parameter(search, junk), LAMBDA o :
             /\ search' = o.self
             /\ raised' = o.raises
             /\ ret' = o.value)
    /\ trace' = Append(trace, [call |-> "compute_best_parameter"])
    /\ pc' = "best"
    /\ UNCHANGED <<args, self, resolution, given, bias, maskVars, meiVars, filterVars>>

SearchNext == ConductSearch \/ ComputeBest

SpecSearch == SearchInit /\ [][SearchNext]_vars

\* a search object whose tables df_params and df_corrs were assigned
\* directly: every row of df_params is the list of candidates
BestInit ==
    /\ pc = "searched"
    /\ \E neurons \in 1..MaxNeurons, reg_factors \in CandidateLists :
       \E correlations \in [1..(neurons * Len(reg_factors)) -> CorrelationValues] :
         LET fil == __init__(Images(1, 1, 1, 1), Responses(1, neurons), "raw", R(10, 1))
             s == Hyperparametersearch("global", fil, fil, reg_factors)
         IN  search = [s EXCEPT
                 !.df_params = Table("ndarray", neurons, Len(reg_factors),
                     Eval([ij \in ((1..neurons) \X (1..Len(reg_factors))) |->
                         reg_factors[ij[2]]])),
                 !.df_corrs = Array(<<neurons, Len(reg_factors)>>, Eval(correlations))]
    /\ resolution = ""
    /\ args = None
    /\ self = None
    /\ raised = ""
    /\ given = None
    /\ ret = None
    /\ trace = <<>>
    /\ bias = None
    /\ NoFilterCall
    /\ NoMeiRun

SpecBest == BestInit /\ [][ComputeBest]_vars

(***************************************************************************)
(* Properties of the gradient ascent step and of mei (checked under Spec). *)
(***************************************************************************)
StepImage == tensors[frame.image]

\* C1: the term the ascent update adds to the image is the lowpass-filtered
\* gradient times the rate times step_gain / 255 (stated for a finite rate).
AscentAddsFilteredGradient ==
    (pc = "blur" /\ IsFin(frame.rate)) =>
        \A c \in Cells(frame.delta) :
            frame.delta[c[1]][c[2]] =
                MulF(MulF(frame.rate, DivF(R(StepGain, 1), R(ByteScale, 1))),
                     frame.a[c[1]][c[2]].re)

\* C2: with a gradient that is zero at every pixel the rate is finite, the
\* update adds zero and the image stays the finite normalised image.
ZeroGradientKeepsImage ==
    (pc = "blur" /\ IsZeroT(StepImage.grad) /\ IsFiniteT(frame.pre)) =>
        /\ IsFin(frame.rate)
        /\ IsZeroT(frame.delta)
        /\ IsFiniteT(StepImage.data)
        /\ StepImage.data = frame.pre

\* C3: every call of the step that mei makes is handed an image that
\* requires grad.
EveryStepImageRequiresGrad ==
    pc = "normalize" => StepImage.requires_grad

\* normalise by the maximum, then blur: what a step with a zero gradient is
\* meant to do to the image
NormalizeBlur(data, sigma) == gaussian_blur(Normalized(data), sigma)

\* C4: a run for one neuron with a constant activation and 2 epochs ends by
\* returning the seed normalised and blurred once per step.
ConstantNeuronTwoEpochs ==
    (selected = <<0>> /\ epochs = 2 /\ pc \in {"done", "error"}) =>
        /\ pc = "done"
        /\ 0 \in DOMAIN meis
        /\ tensors[meis[0]].data =
               NormalizeBlur(NormalizeBlur(seed0, sigmas[1]), sigmas[2])

\* the i-th of n linearly spaced values from range[1] to range[2], i = 0..n-1
Ramp(range, n, i) ==
    IF n = 1 THEN range[1]
    ELSE AddF(range[1],
              MulF(R(i, n - 1), AddF(range[2], NegF(range[1]))))

\* C5: when the run of a neuron is over, the step was called exactly epochs
\* times, call i with lrs[i] and sigmas[i], each call after the first on the
\* image the call before returned, and the last result is stored.
EpochsStepsPerNeuron ==
    (pc \in {"neuron", "done", "error"} /\ counter >= 1) =>
        /\ Len(calls) = epochs
        /\ Len(rets) = epochs
        /\ \A i \in 1..Len(calls) :
               /\ calls[i].lr = Ramp(lrRange, epochs, i - 1)
               /\ calls[i].sigma = Ramp(sigmaRange, epochs, i - 1)
               /\ i > 1 => calls[i].image = rets[i - 1]
        /\ frame.neuron \in DOMAIN meis
        /\ meis[frame.neuron] = rets[epochs]

\* one step as a function of the image data
StepResult(data, neuron, lr, sigma) ==
    LET normed == Normalized(data)
    IN  gaussian_blur(
            AddT(normed, AscentTerm(lr, ModelGradient(neuron, normed))), sigma)

\* the steps i..epochs applied in turn
RECURSIVE Optimised(_, _, _)
Optimised(data, neuron, i) ==
    IF i > epochs THEN data
    ELSE Optimised(StepResult(data, neuron, lrs[i], sigmas[i]), neuron, i + 1)

\* C6: every neuron starts from a fresh copy of the seed, the seed image and
\* the lowpass mask are never changed, and the image stored for a neuron is
\* a function of the seed and the neuron alone (so it does not depend on the
\* order of the list or on the other neurons in it).
NeuronRunsAreIndependent ==
    /\ tensors[ImageRef].data = seed0
    /\ ~tensors[ImageRef].requires_grad
    /\ pc # "start" => lowpass = get_lowpass_tensor(height, width, DefaultAlpha)
    /\ (pc = "normalize" /\ epoch = 0) =>
           /\ frame.image # ImageRef
           /\ StepImage.data = seed0
    /\ \A n \in DOMAIN meis : tensors[meis[n]].data = Optimised(seed0, n, 1)

\* a list of two different neurons was processed to the end and their images
\* differ from each other and from the seed
TwoNeuronsDone ==
    /\ pc = "done"
    /\ Len(selected) = 2
    /\ selected[1] # selected[2]
    /\ DOMAIN meis = {selected[1], selected[2]}
    /\ tensors[meis[selected[1]]].data # tensors[meis[selected[2]]].data
    /\ tensors[meis[selected[1]]].data # seed0
    /\ IsFiniteT(tensors[meis[selected[2]]].data)

\* C7 as stated: after the normalisation the maximum of the image is 1,
\* whatever the image.
NormalizedMaxIsOne ==
    pc = "backward" => MaxT(StepImage.data) = One

\* C7: for an image whose maximum is positive and finite, the maximum is 1
\* after the normalisation.
PositiveMaxNormalizedToOne ==
    (pc = "backward" /\ IsFin(frame.maxBefore) /\ frame.maxBefore.n > 0) =>
        MaxT(StepImage.data) = One

\* an image with maximum 2 was normalised
MaxTwoNormalized ==
    /\ pc = "backward"
    /\ frame.maxBefore = R(2, 1)
    /\ MaxT(StepImage.data) = One

(***************************************************************************)
(* Properties of the lowpass mask (checked under SpecMask).                *)
(***************************************************************************)
\* the squared distance of (y, x), counted from 0, to the nearest corner
CornerDistance(y, x) ==
    R(Min2(x, width - 1 - x) * Min2(x, width - 1 - x)
        + Min2(y, height - 1 - y) * Min2(y, height - 1 - y), 1)

MaskAt(y, x) == lowpass[y + 1][x + 1]

MaskCells == (0..(height - 1)) \X (0..(width - 1))

\* C8: the mask is height x width and its entry (y, x) is
\* 1 / max(1, (min(x, W-1-x)^2 + min(y, H-1-y)^2)^alpha).
MaskMatchesFormula ==
    pc = "built" =>
        /\ Len(lowpass) = height
        /\ \A y \in 0..(height - 1) : Len(lowpass[y + 1]) = width
        /\ \A c \in MaskCells :
               MaskAt(c[1], c[2]) =
                   DivF(One, Max2F(One, Pow(CornerDistance(c[1], c[2]), alpha)))

\* a 3 x 5 mask with exponent 1 was built; its entry (1, 2) is 1/5
MaskThreeByFiveBuilt ==
    /\ pc = "built"
    /\ height = 3
    /\ width = 5
    /\ alpha = R(1, 1)
    /\ MaskAt(1, 2) = R(1, 5)
    /\ MaskAt(0, 2) = R(1, 4)

MaskSymmetric ==
    \A c \in MaskCells :
        /\ MaskAt(c[1], c[2]) = MaskAt(height - 1 - c[1], c[2])
        /\ MaskAt(c[1], c[2]) = MaskAt(c[1], width - 1 - c[2])

\* C9 as stated: for every exponent the mask is symmetric under the
\* reflection of either axis and its corner entry (0, 0) is 1.
MaskSymmetricCornerOne ==
    pc = "built" => (MaskSymmetric /\ MaskAt(0, 0) = One)

\* C9: for every exponent >= 0 the mask is symmetric under the reflection of
\* either axis and its corner entry (0, 0) is 1.
MaskSymmetricCornerOneNonNegative ==
    (pc = "built" /\ alpha.n >= 0) => (MaskSymmetric /\ MaskAt(0, 0) = One)

\* a 4 x 5 mask with exponent 2 was built: corner 1, and the entry (1, 1)
\* and its three reflections are 1/4
MaskReflectionsBuilt ==
    /\ pc = "built"
    /\ height = 4
    /\ width = 5
    /\ alpha = R(2, 1)
    /\ MaskAt(0, 0) = One
    /\ MaskAt(1, 1) = R(1, 4)
    /\ MaskAt(2, 1) = R(1, 4)
    /\ MaskAt(1, 3) = R(1, 4)

MaskMonotoneInUnitInterval ==
    /\ \A p, q \in MaskCells :
           LeqF(CornerDistance(p[1], p[2]), CornerDistance(q[1], q[2]))
               => LeqF(MaskAt(q[1], q[2]), MaskAt(p[1], p[2]))
    /\ \A p \in MaskCells :
           /\ IsFin(MaskAt(p[1], p[2]))
           /\ LtF(Zero, MaskAt(p[1], p[2]))
           /\ LeqF(MaskAt(p[1], p[2]), One)

\* C10 as stated: the mask does not increase with the distance to the
\* nearest corner and every entry is in (0, 1].
MaskMonotone ==
    pc = "built" => MaskMonotoneInUnitInterval

\* C10: for every exponent >= 0 the mask does not increase with the distance
\* to the nearest corner and every entry is in (0, 1].
MaskMonotoneNonNegative ==
    (pc = "built" /\ alpha.n >= 0) => MaskMonotoneInUnitInterval

\* a 5 x 5 mask with the default exponent was built; it takes strictly
\* decreasing values at the distances 0, 2, 5 and 8
MaskDecreasingBuilt ==
    /\ pc = "built"
    /\ height = 5
    /\ width = 5
    /\ alpha = DefaultAlpha
    /\ LtF(MaskAt(2, 2), MaskAt(1, 2))
    /\ LtF(MaskAt(1, 2), MaskAt(1, 1))
    /\ LtF(MaskAt(1, 1), MaskAt(0, 0))

(***************************************************************************)
(* Properties of the gradient filter (checked under SpecFilter).           *)
(***************************************************************************)
\* the real tensor m as a complex one
AsComplex(m) ==
    Eval([y \in 1..Height(m) |-> Eval([x \in 1..Width(m) |-> Cx(m[y][x], Zero)])])

\* a * m1 + b * m2 for complex tensors
CCombine(a, m1, b, m2) ==
    Eval([y \in 1..Height(m1) |-> Eval([x \in 1..Width(m1) |->
        CAdd(CScale(a, m1[y][x]), CScale(b, m2[y][x]))])])

\* C11: what the filter returns is real-valued and has the shape of the
\* gradient: no entry keeps an imaginary part.
FilterReturnsRealTensor ==
    \A i \in 1..Len(filtered) :
        /\ Height(filtered[i]) = Height(grads[i])
        /\ Width(filtered[i]) = Width(grads[i])
        /\ \A c \in Cells(filtered[i]) : filtered[i][c[1]][c[2]].im = Zero

\* C12: for a fixed mask the filter is linear in the gradient:
\* filter(a * G1 + b * G2) = a * filter(G1) + b * filter(G2).
FilterIsLinear ==
    Len(filtered) = 3 =>
        filtered[3] = CCombine(scalars[1], filtered[1], scalars[2], filtered[2])

\* two different gradients filtered with a mask that attenuates, and their
\* combination 2 * G1 - G2
LinearCombinationFiltered ==
    /\ Len(filtered) = 3
    /\ height = 4
    /\ width = 4
    /\ alpha = DefaultAlpha
    /\ grads[1] # grads[2]
    /\ scalars = <<R(2, 1), R(-1, 1)>>
    /\ filtered[3] # AsComplex(grads[3])

\* C13: with exponent 0 the mask is 1 at every position for every height
\* and width, so is the mask divided by its mean, and the filter returns the
\* gradient it was given.
ZeroExponentFiltersNothing ==
    alpha = Zero =>
        /\ \A h \in 1..MaxDim, w \in 1..MaxDim :
              /\ get_lowpass_tensor(h, w, alpha) = ConstT(h, w, One)
              /\ NormalizedByMean(get_lowpass_tensor(h, w, alpha)) = ConstT(h, w, One)
        /\ \A i \in 1..Len(filtered) : filtered[i] = AsComplex(grads[i])

\* a gradient that is not constant, filtered with the mask of exponent 0
ZeroExponentGradientFiltered ==
    /\ alpha = Zero
    /\ height = 4
    /\ width = 4
    /\ Len(filtered) = 3
    /\ grads[1] = LinearWeights(4, 4)
    /\ filtered[1] = AsComplex(LinearWeights(4, 4))

(***************************************************************************)
(* Properties of the linear filters (checked under SpecLin, SpecReshape    *)
(* and SpecLaplace).                                                       *)
(***************************************************************************)
\* the solver each regularization type stands for
StrategySolver(reg_type) ==
    CASE reg_type = "laplace regularized" -> "_laplace_regularized_filter"
      [] reg_type = "ridge regularized" -> "_ridge_regularized_filter"
      [] reg_type = "whitened" -> "_whitened_filter"
      [] reg_type = "raw" -> "_normal_filter"

FourTypes == {"laplace regularized", "ridge regularized", "whitened", "raw"}

\* C14: construction with a reg_type outside the four recognized ones fails
\* with an error and leaves no object; with one of the four it succeeds and
\* the object's solver is the one of that type.
ConstructionChecksRegType ==
    /\ args.reg_type \notin FourTypes =>
          /\ pc \in {"new", "failed"}
          /\ self = None
          /\ pc = "failed" => raised = "AssertionError"
    /\ args.reg_type \in FourTypes =>
          /\ pc \in {"new", "constructed", "trained"}
          /\ pc # "new" =>
                /\ self # None
                /\ self._compute_filter = StrategySolver(args.reg_type)

UnknownTypeRejected ==
    /\ pc = "failed"
    /\ args.reg_type = "lasso"
    /\ raised = "AssertionError"
    /\ self = None

\* C15: a Filter whose images and responses differ in their number of
\* samples is rejected at construction, so every Filter object has
\* image_count equal to the number of rows of its responses.
SampleCountsChecked ==
    /\ self # None => self.image_count = self.responses.shape[1]
    /\ args.images.shape[1] # args.responses.shape[1] => pc \in {"new", "failed"}

\* C16: _reshape_filter_2d and Filter._fil_2d raise when the filter they are
\* given is not 4D.
NonFourDFilterRejected ==
    (/\ Len(trace) = 1
     /\ trace[1] \in {"_reshape_filter_2d", "_fil_2d"}
     /\ Len(given.shape) # 4) => raised # ""

\* C17: _fil_2d then _fil_4d gives a 4D filter back with its shape and its
\* values, and _fil_4d then _fil_2d gives a 2D filter back unchanged.
ReshapeRoundTrips ==
    /\ (Len(given.shape) = 4 /\ trace \in {<<"_fil_2d">>, <<"_fil_2d", "_fil_4d">>}) =>
          /\ raised = ""
          /\ Len(trace) = 2 => self.fil = given
    /\ (Len(given.shape) = 2 /\ trace \in {<<"_fil_4d">>, <<"_fil_4d", "_fil_2d">>}) =>
          /\ raised = ""
          /\ Len(trace) = 2 => self.fil = given

\* the filter in its 2D form (pixels x neurons)
TwoDForm(fil) == IF Len(fil.shape) = 4 THEN _reshape_filter_2d(fil) ELSE fil

\* the factor the call of train worked with
UsedFactor == IF trace[1].reg_factor = None THEN args.reg_factor ELSE trace[1].reg_factor

\* images X (one channel) and responses Y with the same number of rows
Regression ==
    /\ args.images.shape[2] = 1
    /\ args.images.shape[1] = args.responses.shape[1]

Pixels == args.images.shape[3] * args.images.shape[4]

\* sum over the images i of X[i][p] * Y[i][n]
SumOverImages(p, n) ==
    SumSeq(Eval([i \in 1..args.images.shape[1] |->
        MulF(args.images.data[(i - 1) * Pixels + p], At(args.responses, i, n))]))

\* C18: with reg_type 'raw' the trained filter in its 2D form is X^T Y,
\* F[p][n] = sum over the images i of X[i][p] * Y[i][n], whatever the
\* regularization factor.
RawFilterIsXtY ==
    (pc = "trained" /\ args.reg_type = "raw" /\ Regression) =>
        /\ self.fil # None
        /\ TwoDForm(self.fil).shape = <<Pixels, args.responses.shape[2]>>
        /\ \A p \in 1..Pixels, n \in 1..args.responses.shape[2] :
              At(TwoDForm(self.fil), p, n) = SumOverImages(p, n)

\* two images of 4 pixels, two neurons, the factor 10
RawFilterTrained ==
    /\ pc = "trained"
    /\ args.reg_type = "raw"
    /\ args.images.shape = <<2, 1, 2, 2>>
    /\ args.responses.shape = <<2, 2>>
    /\ UsedFactor = R(10, 1)
    /\ raised = ""
    /\ Len(self.fil.shape) = 4
    /\ \E k \in 1..Len(self.fil.data) : self.fil.data[k] # Zero

\* what the call of train left: the filter in 2D form, or the exception of
\* the solver
Solved == IF self.fil = None THEN Raise(raised) ELSE TwoDForm(self.fil)

\* C19: the ridge filter trained with factor 0 equals the whitened filter of
\* the same images and responses.
RidgeZeroIsWhitened ==
    pc = "trained" =>
        /\ (args.reg_type = "ridge regularized" /\ UsedFactor = Zero) =>
              Solved = _whitened_filter(self, self.responses, Zero)
        /\ args.reg_type = "whitened" =>
              Solved = _ridge_regularized_filter(self, self.responses, Zero)

\* a ridge filter of two images of two pixels trained with factor 0
RidgeZeroTrained ==
    /\ pc = "trained"
    /\ args.reg_type = "ridge regularized"
    /\ UsedFactor = Zero
    /\ args.images.shape = <<2, 1, 1, 2>>
    /\ args.responses.shape = <<2, 2>>
    /\ raised = ""
    /\ \E k \in 1..Len(self.fil.data) : self.fil.data[k] # Zero

\* C20: for a square n x n grid the Laplace matrix is (n*n) x (n*n); the
\* row of pixel (x, y) has 4 at the pixel's own index, -1 at the index of
\* each neighbour above, below, left and right inside the grid, 0 elsewhere.
SquareLaplaceIsStencil ==
    (bias # None /\ bias.sizex = bias.sizey) =>
        /\ pc # "failed"
        /\ pc = "returned" =>
              LET n == bias.sizex
              IN  /\ Len(ret) = n * n
                  /\ \A r \in 1..(n * n) : Len(ret[r]) = n * n
                  /\ \A px \in 0..(n - 1), py \in 0..(n - 1),
                        qx \in 0..(n - 1), qy \in 0..(n - 1) :
                        ret[px * n + py + 1][qx * n + qy + 1] =
                            IF px = qx /\ py = qy THEN 4
                            ELSE IF AbsInt(px - qx) + AbsInt(py - qy) = 1 THEN -1
                            ELSE 0

\* the matrix of the 3 x 3 grid
SquareLaplaceBuilt ==
    /\ pc = "returned"
    /\ bias.sizex = 3
    /\ bias.sizey = 3
    /\ ret[5] = <<0, -1, 0, -1, 4, -1, 0, -1, 0>>

(***************************************************************************)
(* Properties of IndividualRegularizationFilter (checked under             *)
(* SpecIndividual).                                                        *)
(***************************************************************************)
\* the factors the loop of train ran over
UsedFactors == IF trace[1].reg_factor = None THEN self.reg_factor ELSE trace[1].reg_factor

\* the regression of response column `neuron` alone: the result of the
\* object's solver when the object holds that column only
SingleColumnRegression(neuron) ==
    LET response == reshape(Column(self.responses, neuron), <<self.image_count, 1>>)
    IN  _compute_filter([self EXCEPT !.responses = response], response,
                        UsedFactors[neuron + 1])

\* C21: for each of the four strategies the solver result of every pass of
\* the loop has exactly one column, and the column the pass assigns is the
\* regression of that neuron's response column with that neuron's factor.
PerNeuronSolverUsesOwnColumn ==
    pc = "trained" =>
        /\ \A k \in 1..Len(trace[1].shapes) : trace[1].shapes[k][2] = 1
        /\ \A k \in 1..Len(trace[1].columns) :
              LET neuron == trace[1].columns[k]
              IN  Column(trace[1].filters, neuron).data =
                      SingleColumnRegression(neuron).data

\* C29: train assigns each of the neuron_count columns of the filter it
\* stores exactly once, for every list of factors, shorter and longer ones
\* included.
EveryColumnAssignedOnce ==
    (pc = "trained" /\ self.fil # None) =>
        trace[1].columns = Eval([i \in 1..self.neuron_count |-> i - 1])

\* C28: for every grid, square or not, the construction of the Laplace
\* matrix completes without error: every row the loop body is about to
\* write is a row of the (sizex*sizey) x (sizex*sizey) matrix.
LaplaceCompletesOnEveryGrid ==
    pc \in {"laplace", "failed", "returned"} =>
        /\ pc # "failed"
        /\ (pc = "laplace" /\ ~BiasDone(bias)) =>
              StencilRow(bias) < bias.sizex * bias.sizey

(***************************************************************************)
(* Properties of Filter.evaluate (checked under SpecEvaluate).             *)
(***************************************************************************)
\* C27: evaluate called without a filter completes and returns a table
\* with one correlation for every neuron 0..neuron_count-1, and leaves the
\* stored filter in the 4D form (neuron_count, channels, dim1, dim2).
EvaluateWithoutFilterReturnsTable ==
    (pc = "evaluated" /\ given = None) =>
        /\ raised = ""
        /\ ret # None
        /\ Len(ret) = self.neuron_count
        /\ self.fil # None
        /\ self.fil.shape = <<self.neuron_count, self.channels, self.dim1, self.dim2>>

(***************************************************************************)
(* Properties of compute_best_parameter on tables assigned directly        *)
(* (checked under SpecBest).                                               *)
(***************************************************************************)
\* the candidates whose correlation is the maximum of row n
BestCandidates(n) ==
    {k \in 1..search.df_corrs.shape[2] :
        At(search.df_corrs, n, k) = RowMaxima(search.df_corrs)[n]}

\* candidate k has the single largest correlation of every row
StrictlyDominates(k) ==
    \A n \in 1..search.neuron_count : BestCandidates(n) = {k}

\* C22: for every correlation table and parameter table of shape
\* (neuron_count, candidates) compute_best_parameter returns a result of
\* shape (neuron_count, 3) whose row n is (n, f, c), c the maximum of row n
\* of the correlations and f a candidate with that correlation; a candidate
\* that strictly dominates every row is the one selected for every neuron.
BestRowsAreRowMaxima ==
    pc = "best" =>
        /\ raised = ""
        /\ ret # None
        /\ ret[1].shape = <<search.neuron_count, 3>>
        /\ \A n \in 1..search.neuron_count :
              /\ At(ret[1], n, 1) = R(n - 1, 1)
              /\ At(ret[1], n, 3) = RowMaxima(search.df_corrs)[n]
              /\ \E k \in BestCandidates(n) : At(ret[1], n, 2) = At(search.df_params, n, k)
        /\ \A k \in 1..Len(search.reg_factors) :
              StrictlyDominates(k) =>
                  \A n \in 1..search.neuron_count :
                      At(ret[1], n, 2) = search.reg_factors[k]

\* C23: when two or more candidates share the maximum of a row,
\* compute_best_parameter still completes and returns exactly one row a
\* neuron, with one of the tied candidates in that row.
TiesAreResolved ==
    (pc = "best" /\ \E n \in 1..search.neuron_count : Cardinality(BestCandidates(n)) >= 2) =>
        /\ raised = ""
        /\ ret # None
        /\ ret[1].shape[1] = search.neuron_count
        /\ \A n \in 1..search.neuron_count :
              \E k \in BestCandidates(n) : At(ret[1], n, 2) = At(search.df_params, n, k)

\* C24: the avg_correlation that compute_best_parameter returns is the sum
\* of the third column of the result (the row maxima) divided by the
\* number of neurons; when one candidate strictly dominates every row the
\* call returns and avg_correlation is the mean of that candidate's column
\* of the correlation table.
AverageIsMeanOfRowMaxima ==
    pc = "best" =>
        /\ raised = "" =>
              ret[2] = DivF(SumSeq(Eval([n \in 1..search.neuron_count |->
                                            At(ret[1], n, 3)])),
                            R(search.neuron_count, 1))
        /\ \A k \in 1..Len(search.reg_factors) :
              StrictlyDominates(k) =>
                  /\ raised = ""
                  /\ ret[2] = DivF(SumSeq(Eval([n \in 1..search.neuron_count |->
                                                   At(search.df_corrs, n, k)])),
                                   R(search.neuron_count, 1))

\* two neurons with the maxima 1 and 1/2, both at the second of three
\* candidates: the average is 3/4
AverageOfTwoMaxima ==
    /\ pc = "best"
    /\ raised = ""
    /\ search.neuron_count = 2
    /\ Len(search.reg_factors) = 3
    /\ StrictlyDominates(2)
    /\ ret[2] = R(3, 4)

(***************************************************************************)
(* Properties of conduct_search (checked under SpecSearch).                *)
(***************************************************************************)
\* C25: the global conduct_search trains and predicts once a candidate in
\* list order, completes, and returns a table of shape
\* (neuron_count, 1 + 2K) in which every parameter row is the candidate
\* list and every correlation row is the same vector; a following
\* compute_best_parameter selects the same factor for every neuron.
GlobalSearchReturnsTable ==
    (pc \in {"searched", "best"} /\ search.kind = "global") =>
        LET K == Len(search.reg_factors)
        IN  /\ trace[1].trained = search.reg_factors
            /\ search.search # None
            /\ search.search.shape = <<search.neuron_count, 1 + 2 * K>>
            /\ \A n \in 1..search.neuron_count, k \in 1..K :
                  /\ At(search.search, n, 1 + k) = search.reg_factors[k]
                  /\ At(search.search, n, 1 + K + k) = At(search.search, 1, 1 + K + k)
            /\ pc = "best" =>
                  /\ raised = ""
                  /\ \A n \in 1..search.neuron_count :
                        At(ret[1], n, 2) = At(ret[1], 1, 2)

\* C26: the individual conduct_search trains once a candidate with the
\* candidate repeated for every neuron, completes, and returns a table of
\* shape (neuron_count, 1 + 2K) in which column k of the parameters holds
\* candidate k and entry (n, k) of the correlations is the validation
\* correlation of neuron n under candidate k.
IndividualSearchReturnsTable ==
    (pc = "searched" /\ search.kind = "individual") =>
        LET K == Len(search.reg_factors)
        IN  /\ trace[1].trained =
                   Eval([k \in 1..K |->
                       Eval([n \in 1..search.neuron_count |-> search.reg_factors[k]])])
            /\ raised = ""
            /\ search.search # None
            /\ search.search.shape = <<search.neuron_count, 1 + 2 * K>>
            /\ \A n \in 1..search.neuron_count, k \in 1..K :
                  /\ At(search.search, n, 1 + k) = search.reg_factors[k]
                  /\ At(search.search, n, 1 + K + k) = At(search.corrs, n, k)

\* C30: after conduct_search over a non-empty list and then
\* compute_best_parameter, TrainFilter.fil is the filter trained with the
\* last candidate of the list and TrainFilter.reg_factor is the value
\* given at construction.
TrainFilterHoldsLastCandidate ==
    (pc = "best" /\ args # None) =>
        Let(IF search.kind = "global"
            THEN train(args.TrainFilter, search.reg_factors[Len(search.reg_factors)],
                       resolution)
            ELSE IndividualTrain(args.TrainFilter,
                     Eval([n \in 1..search.neuron_count |->
                         search.reg_factors[Len(search.reg_factors)]]),
                     resolution, Zero), LAMBDA again :
            /\ raised = ""
            /\ again.raises = ""
            /\ search.TrainFilter.fil = again.self.fil
            /\ search.TrainFilter.reg_factor = args.TrainFilter.reg_factor)
====
